---- MODULE Spec2Model ----
(***************************************************************************)
(* Paper-trading ledger of the Finance dashboard: TraderState              *)
(* (state_management.py) and the Dash handlers that drive it               *)
(* (callbacks.py).                                                         *)
(*                                                                         *)
(* Numbers.  Quantities and prices are drawn from integers, so cash stays  *)
(* an integer.  avg_price and realized_pnl are quotients; they are kept as *)
(* exact fractions [num, den] in lowest terms (Python floats are modelled  *)
(* as exact rationals).  round(x, 2) is modelled as an integer number of   *)
(* hundredths.  Timestamps (buy_date, "Fecha Venta") are left out.         *)
(***************************************************************************)
EXTENDS Integers, Sequences, FiniteSets, TLC

VARIABLES
    portfolio,                \* TraderState.portfolio
    initial_portfolio_state,  \* TraderState.initial_portfolio_state
    aliased,                  \* portfolio is the very dict initial_portfolio_state
    disk,                     \* content of FILE_PATH
    latest_data,              \* TraderState.latest_data (ticker, last Close, rec, last_auto_trade_rec)
    last,                     \* history: the latest ledger call and its result
    prev,                     \* history: the ledger call before that
    nops,                     \* history: number of handler / ledger invocations so far
    buy_log,                  \* history: per ticker, the buys since the ticker was last not held
    scen,                     \* history: progress along the worked scenario
    auto_log,                 \* history: the automated evaluations made by handle_auto_trading
    error_message,            \* what the latest fetch of update_analysis_and_graphs reported
    current,                  \* config_editor.current, the Config Store
    scored,                   \* the latest row put to the two scoring paths, and their results
    feed,                     \* what a replay program was started on
    sim,                      \* backtest.run_single_simulation: its locals
    engine,                   \* backtest_engine.run_backtest: its frame, the strategy's position and orders
    scoring,                  \* backtest_engine.run_backtest: its config and the rec column as it is filled
    optimizer_state_file,     \* content of OPTIMIZER_STATE_FILE
    optimizer,                \* optimizer.run_optimizer: its locals
    population,               \* run_optimizer's pop, the genes of its individuals
    requests,                 \* the callback invocations the server has been sent
    config_file,              \* content of config.py
    current_types,            \* per key of config_editor.current, int or float
    config_module,            \* the module config as imported, and its cached bytecode
    store_log                 \* history: the latest Config Store call, and the hashes seen

vars == <<portfolio, initial_portfolio_state, aliased, disk, latest_data,
          last, prev, nops, buy_log, scen, auto_log, error_message, current, scored,
          feed, sim,
          engine, scoring, optimizer_state_file, optimizer, population, requests,
          config_file, current_types, config_module, store_log>>

\* the state of the ledger and its handlers, and the state beside it
ledger_vars == <<portfolio, initial_portfolio_state, aliased, disk, latest_data,
                 last, prev, nops, buy_log, scen, auto_log, error_message>>
score_vars == <<current, scored>>
replay_vars == <<feed, sim, engine, scoring>>
optimizer_vars == <<optimizer_state_file, optimizer>>
store_vars == <<config_file, current_types, config_module, store_log>>
service_vars == <<population, requests, store_vars>>
off_ledger_vars == <<score_vars, replay_vars, optimizer_vars, service_vars>>

(***************************************************************************)
(* Bounds and input sets                                                   *)
(***************************************************************************)
MaxOps == 3

Tickers == {"AAPL", "MSFT"}
Quantities == {10, 15}
Prices == {150, 170, 180}
AppPrices == {150, 170}
AnyQuantities == {-5, 0, 10}
AnyPrices == {0, 150}

None == "None"

BUY_SIGNAL == "Comprar"
SELL_SIGNAL == "Vender"
OBSERVE_SIGNAL == "Observar"
HOLD_SIGNAL == "Mantener"
Signals == {BUY_SIGNAL, SELL_SIGNAL, OBSERVE_SIGNAL, HOLD_SIGNAL}

(***************************************************************************)
(* Exact fractions                                                         *)
(***************************************************************************)
Abs(x) == IF x < 0 THEN -x ELSE x

RECURSIVE GCD(_, _)
GCD(a, b) == IF b = 0 THEN a ELSE GCD(b, a % b)

\* n/d in lowest terms with a positive denominator (d # 0)
Frac(n, d) ==
    LET s == IF d < 0 THEN -1 ELSE 1
        g == GCD(Abs(n), Abs(d))
    IN  [num |-> (s * n) \div g, den |-> (s * d) \div g]

FracOfInt(n) == [num |-> n, den |-> 1]

\* round(x, 2) as a number of hundredths, ties to even
round2_ceiling(x) ==
    LET n == 100 * x.num
        q == n \div x.den
    IN  IF n = q * x.den THEN q ELSE q + 1

round2(x) ==
    LET n == 100 * x.num
        q == n \div x.den
        r == n - q * x.den
    IN  IF 2 * r < x.den THEN q
        ELSE IF 2 * r > x.den THEN q + 1
        ELSE IF q % 2 = 0 THEN q ELSE q + 1

(***************************************************************************)
(* TraderState.__init__ / _load_portfolio                                  *)
(***************************************************************************)
DefaultCash == 100000

NoStocks == [t \in {} |-> 0]
NoTrades == <<>>

InitialPortfolioState ==
    [cash |-> DefaultCash, stocks |-> NoStocks, initial_cash |-> DefaultCash,
     closed_trades |-> NoTrades]

\* what FILE_PATH may hold when the process starts
MissingFile == [kind |-> "missing"]
MalformedFile == [kind |-> "malformed"]
OldFormatFile == [kind |-> "old_format"]
JsonFile(data) == [kind |-> "json", data |-> data]

LoadableData ==
    { [cash |-> c, stocks |-> NoStocks, initial_cash |-> ic, closed_trades |-> NoTrades] :
        c \in {2000}, ic \in {50000} }
    \cup
    { [cash |-> 98500,
       stocks |-> [t \in {"AAPL"} |-> [qty |-> 10, avg_price |-> FracOfInt(150)]],
       initial_cash |-> DefaultCash, closed_trades |-> NoTrades] }

StartFiles ==
    {MissingFile, MalformedFile, OldFormatFile} \cup {JsonFile(d) : d \in LoadableData}

\* TRUE when _load_portfolio returns the parsed document, FALSE when it falls
\* back to initial_portfolio_state
load_ok(file) == file.kind = "json"

_load_portfolio(file, initial) ==
    IF load_ok(file) THEN file.data ELSE initial

(***************************************************************************)
(* TraderState._buy_stock                                                  *)
(***************************************************************************)
\* line 54: the funds test
buy_has_funds_untested(cash, costo_total) == TRUE

buy_has_funds_any_cash(cash, costo_total) == cash > 0

buy_has_funds(cash, costo_total) == cash >= costo_total

\* lines 58-63: merge an additional buy into a held position.  The quantity
\* is stored first; the division raises ZeroDivisionError when the new total
\* quantity is 0, leaving the old avg_price in place.
merged_avg_price_unweighted(old, quantity, price) ==
    Frac(old.avg_price.num + price * old.avg_price.den, 2 * old.avg_price.den)

merged_avg_price_latest(old, quantity, price) == FracOfInt(price)

merged_avg_price(old, quantity, price) ==
    LET new_total_qty == old.qty + quantity
    IN  Frac(old.qty * old.avg_price.num + quantity * price * old.avg_price.den,
             old.avg_price.den * new_total_qty)

put_stock(stocks, ticker, entry) ==
    [t \in DOMAIN stocks \cup {ticker} |-> IF t = ticker THEN entry ELSE stocks[t]]

del_stock(stocks, ticker) ==
    [t \in DOMAIN stocks \ {ticker} |-> stocks[t]]

\* result: the portfolio after the call, the notification colour, and whether
\* the call left through an exception (then nothing was saved)
_buy_stock(pf, ticker, quantity, price) ==
    LET costo_total == quantity * price
    IN  IF buy_has_funds(pf.cash, costo_total)
        THEN IF ticker \notin DOMAIN pf.stocks
             THEN [portfolio |-> [pf EXCEPT
                        !.stocks = put_stock(pf.stocks, ticker,
                                     [qty |-> quantity, avg_price |-> FracOfInt(price)]),
                        !.cash = pf.cash - costo_total],
                   color |-> "success", raised |-> FALSE]
             ELSE LET old == pf.stocks[ticker]
                      new_total_qty == old.qty + quantity
                  IN  IF new_total_qty = 0
                      THEN [portfolio |-> [pf EXCEPT
                                 !.stocks = put_stock(pf.stocks, ticker,
                                              [old EXCEPT !.qty = new_total_qty])],
                            color |-> "error", raised |-> TRUE]
                      ELSE [portfolio |-> [pf EXCEPT
                                 !.stocks = put_stock(pf.stocks, ticker,
                                              [qty |-> new_total_qty,
                                               avg_price |-> merged_avg_price(old, quantity, price)]),
                                 !.cash = pf.cash - costo_total],
                            color |-> "success", raised |-> FALSE]
        ELSE [portfolio |-> pf, color |-> "danger", raised |-> FALSE]

(***************************************************************************)
(* TraderState._sell_stock                                                 *)
(***************************************************************************)
\* line 77: the holding test
sell_has_shares_any_amount(stocks, ticker, quantity) == ticker \in DOMAIN stocks

sell_has_shares(stocks, ticker, quantity) ==
    ticker \in DOMAIN stocks /\ stocks[ticker].qty >= quantity

\* line 79: (price - avg_buy_price) * quantity
realized_pnl_of_unparenthesised(price, avg_buy_price, quantity) ==
    Frac(price * quantity * avg_buy_price.den - avg_buy_price.num, avg_buy_price.den)

realized_pnl_of_flipped(price, avg_buy_price, quantity) ==
    Frac((avg_buy_price.num - price * avg_buy_price.den) * quantity, avg_buy_price.den)

realized_pnl_of(price, avg_buy_price, quantity) ==
    Frac((price * avg_buy_price.den - avg_buy_price.num) * quantity, avg_buy_price.den)

\* lines 83-90: the record appended to closed_trades (amounts in hundredths)
closed_trade(ticker, quantity, avg_buy_price, price, realized_pnl) ==
    [Ticker |-> ticker, Cantidad |-> quantity,
     PrecioCompraPromedio |-> round2(avg_buy_price),
     PrecioVenta |-> round2(FracOfInt(price)),
     GananciaPerdidaRealizada |-> round2(realized_pnl)]

\* lines 92-94: decrement, and delete the entry at quantity 0
remaining_stocks_never_deleted(stocks, ticker, quantity) ==
    put_stock(stocks, ticker,
              [stocks[ticker] EXCEPT !.qty = stocks[ticker].qty - quantity])

remaining_stocks(stocks, ticker, quantity) ==
    LET left == stocks[ticker].qty - quantity
    IN  IF left = 0 THEN del_stock(stocks, ticker)
        ELSE put_stock(stocks, ticker, [stocks[ticker] EXCEPT !.qty = left])

\* line 83: closed_trades.append(record)
with_closed_trade_dropped(closed_trades, record) == closed_trades

with_closed_trade(closed_trades, record) == Append(closed_trades, record)

_sell_stock(pf, ticker, quantity, price) ==
    IF sell_has_shares(pf.stocks, ticker, quantity)
    THEN LET avg_buy_price == pf.stocks[ticker].avg_price
             realized_pnl == realized_pnl_of(price, avg_buy_price, quantity)
         IN  [portfolio |-> [pf EXCEPT
                    !.cash = pf.cash + quantity * price,
                    !.closed_trades = with_closed_trade(pf.closed_trades,
                        closed_trade(ticker, quantity, avg_buy_price, price, realized_pnl)),
                    !.stocks = remaining_stocks(pf.stocks, ticker, quantity)],
              color |-> "success", realized_pnl |-> realized_pnl]
    ELSE [portfolio |-> pf, color |-> "danger", realized_pnl |-> FracOfInt(0)]

(***************************************************************************)
(* TraderState.reset_portfolio                                             *)
(***************************************************************************)
\* line 107: the cash a reset restores
reset_cash(pf, initial) == initial.initial_cash

reset_portfolio(pf, initial) ==
    [pf EXCEPT !.cash = reset_cash(pf, initial),
               !.stocks = NoStocks,
               !.closed_trades = NoTrades]

\* _save_portfolio: the whole document replaces the file
_save_portfolio(pf) == JsonFile(pf)
(***************************************************************************)
(* Signal scoring.  A frame value is NaN (the empty tuple) or <<n>> with n *)
(* an integer; a comparison with NaN on either side is false, as in        *)
(* pandas.  Coefficients, thresholds and scores are kept in hundredths     *)
(* (2.4 is 240), so that a score is an integer sum.  The rows enumerated   *)
(* below never put a score exactly on the decision margin through a sum of *)
(* three or more coefficients, where the rounding of the float sum, and    *)
(* not its exact value, would decide the comparison.                       *)
(***************************************************************************)
NaN == <<>>

gt(a, b) == a # NaN /\ b # NaN /\ a[1] > b[1]
lt(a, b) == a # NaN /\ b # NaN /\ a[1] < b[1]
ge(a, b) == a # NaN /\ b # NaN /\ a[1] >= b[1]
le(a, b) == a # NaN /\ b # NaN /\ a[1] <= b[1]

\* a frame value against a configuration value kept in hundredths
above(x, hundredths) == x # NaN /\ 100 * x[1] > hundredths

below_or_undefined(x, hundredths) == x = NaN \/ 100 * x[1] < hundredths

below(x, hundredths) == x # NaN /\ 100 * x[1] < hundredths

\* x > multiplier * y, the multiplier in hundredths
exceeds(x, multiplier, y) == x # NaN /\ y # NaN /\ 100 * x[1] > multiplier * y[1]

\* config.py: the values of the module, in hundredths
original_config ==
    [RSI_OVERSOLD |-> 3000, RSI_OVERBOUGHT |-> 7000,
     STOCH_OVERSOLD |-> 2000, STOCH_OVERBOUGHT |-> 8000,
     ADX_TREND_THRESHOLD |-> 2500, VOLUME_SMA_MULTIPLIER |-> 150,
     COEF_BOLLINGER |-> 80, COEF_RSI |-> 240, COEF_MACD |-> 155,
     COEF_STOCH |-> 200, COEF_ADX_SMA |-> 75, COEF_VOLUME |-> 100,
     BUY_SELL_THRESHOLD |-> 140, CACHE_TIMEOUT |-> 30000]

\* config.py: the number type of each value
original_types ==
    [RSI_OVERSOLD |-> "int", RSI_OVERBOUGHT |-> "int",
     STOCH_OVERSOLD |-> "int", STOCH_OVERBOUGHT |-> "int",
     ADX_TREND_THRESHOLD |-> "int", VOLUME_SMA_MULTIPLIER |-> "float",
     COEF_BOLLINGER |-> "float", COEF_RSI |-> "float", COEF_MACD |-> "float",
     COEF_STOCH |-> "float", COEF_ADX_SMA |-> "float", COEF_VOLUME |-> "float",
     BUY_SELL_THRESHOLD |-> "float", CACHE_TIMEOUT |-> "int"]

\* config_editor.update_dict: only the keys the store already has are taken
update_dict_any_key(cur, new_values) ==
    [k \in DOMAIN cur \cup DOMAIN new_values |->
        IF k \in DOMAIN new_values THEN new_values[k] ELSE cur[k]]

update_dict(cur, new_values) ==
    [k \in DOMAIN cur |-> IF k \in DOMAIN new_values THEN new_values[k] ELSE cur[k]]

\* repr of a number: its length in characters (values are in hundredths; a
\* float is written with a point and at least one decimal, an int without)
Digits(n) ==
    IF n < 10 THEN 1 ELSE IF n < 100 THEN 2 ELSE IF n < 1000 THEN 3
    ELSE IF n < 10000 THEN 4 ELSE 5

repr_len(v, type) ==
    IF type = "int" THEN Digits(v \div 100)
    ELSE Digits(v \div 100) + 1 + (IF v % 10 = 0 THEN 1 ELSE 2)

\* the size of config.py: its lines "K = repr(v)" (persist_config line 82)
RECURSIVE source_size(_, _, _)
source_size(values, types, keys) ==
    IF keys = {} THEN 0
    ELSE LET k == CHOOSE x \in keys : TRUE
         IN  repr_len(values[k], types[k]) + source_size(values, types, keys \ {k})

\* importlib.reload(original_config): the source is compiled again unless the
\* cached bytecode carries the source's modification time (in whole seconds)
\* and size; then the cached bytecode is executed
importlib_reload(module, file) ==
    IF /\ module.pyc.mtime = file.mtime
       /\ module.pyc.size = source_size(file.values, file.types, DOMAIN file.values)
    THEN [module EXCEPT !.values = module.pyc.values, !.types = module.pyc.types]
    ELSE [values |-> file.values, types |-> file.types,
          pyc |-> [mtime |-> file.mtime,
                   size |-> source_size(file.values, file.types, DOMAIN file.values),
                   values |-> file.values, types |-> file.types]]

\* config_editor.reset_to_original, lines 36-42: dict.update with the
\* upper-case names of the module
reset_to_original(cur, module_values) ==
    [k \in DOMAIN cur \cup DOMAIN module_values |->
        IF k \in DOMAIN module_values THEN module_values[k] ELSE cur[k]]

\* config_editor._hash_config, lines 50-56: the digest of json.dumps of the
\* store with sorted keys, which writes an int without a point and a float
\* with one.  The digest is kept as the text it is taken of; the uneditable
\* keys in it are those persist_config writes back unchanged.
_hash_config(cur, types) ==
    [k \in DOMAIN cur |-> <<cur[k], types[k]>>]

\* config_editor.persist_config, lines 74-88: config.py is replaced by the
\* lines K = repr(v) of the store, written in the second mtime
persist_config(cur, types, mtime) ==
    [values |-> cur, types |-> types, mtime |-> mtime]

\* config.get(key, default)
config_get(config, key, default) ==
    IF key \in DOMAIN config THEN config[key] ELSE default

\* the labels _compute_signal_row falls back to: the store holds no signal
\* key (config_editor.uneditable_keys), and the fallbacks of OBSERVE and HOLD
\* are not the labels of config.py
OBSERVE_FALLBACK == "Observar (eyes)"
HOLD_FALLBACK == "Mantener (pause)"

\* the Signal a label stands for
SignalOf(label) ==
    CASE label = BUY_SIGNAL -> "Buy"
      [] label = SELL_SIGNAL -> "Sell"
      [] label \in {OBSERVE_SIGNAL, OBSERVE_FALLBACK} -> "Observe"
      [] label \in {HOLD_SIGNAL, HOLD_FALLBACK} -> "Hold"
      [] OTHER -> "NoSignal"

NoScore == [buy |-> 0, sell |-> 0]

total_buy(c) ==
    c.bollinger.buy + c.rsi.buy + c.macd.buy + c.stoch.buy + c.adx.buy + c.volume.buy
total_sell(c) ==
    c.bollinger.sell + c.rsi.sell + c.macd.sell + c.stoch.sell + c.adx.sell + c.volume.sell

\* df["prev_MACD"], df["prev_Signal"], df["prev_Close"] = shift(1): the row
\* before, NaN on the first row of the frame
shift1(row, prev_row) ==
    [Close |-> row.Close, Lower |-> row.Lower, Upper |-> row.Upper,
     RSI |-> row.RSI, MACD |-> row.MACD, Signal |-> row.Signal,
     Stoch_K |-> row.Stoch_K, Stoch_D |-> row.Stoch_D,
     ADX |-> row.ADX, SMA20 |-> row.SMA20,
     Volume |-> row.Volume, Volume_SMA |-> row.Volume_SMA,
     prev_MACD |-> IF prev_row = <<>> THEN NaN ELSE prev_row[1].MACD,
     prev_Signal |-> IF prev_row = <<>> THEN NaN ELSE prev_row[1].Signal,
     prev_Close |-> IF prev_row = <<>> THEN NaN ELSE prev_row[1].Close]

threshold_logic_inclusive(buy_score, sell_score, BUY_SELL_THRESHOLD, buy, sell, observe, hold) ==
    IF buy_score >= sell_score + BUY_SELL_THRESHOLD THEN buy
    ELSE IF sell_score >= buy_score + BUY_SELL_THRESHOLD THEN sell
    ELSE IF buy_score > 0 \/ sell_score > 0 THEN observe
    ELSE hold

\* backtest_engine.py lines 150-157
threshold_logic(buy_score, sell_score, BUY_SELL_THRESHOLD, buy, sell, observe, hold) ==
    IF buy_score > sell_score + BUY_SELL_THRESHOLD THEN buy
    ELSE IF sell_score > buy_score + BUY_SELL_THRESHOLD THEN sell
    ELSE IF buy_score > 0 \/ sell_score > 0 THEN observe
    ELSE hold

\* backtest_engine._compute_signal_row: what each of the six rules adds
signal_row_scores(row, config) ==
    LET COEF_BOLLINGER == config_get(config, "COEF_BOLLINGER", 80)
        COEF_RSI == config_get(config, "COEF_RSI", 240)
        COEF_MACD == config_get(config, "COEF_MACD", 155)
        COEF_STOCH == config_get(config, "COEF_STOCH", 200)
        COEF_ADX_SMA == config_get(config, "COEF_ADX_SMA", 75)
        COEF_VOLUME == config_get(config, "COEF_VOLUME", 80)
        RSI_OVERSOLD == config_get(config, "RSI_OVERSOLD", 3000)
        RSI_OVERBOUGHT == config_get(config, "RSI_OVERBOUGHT", 7000)
        STOCH_OVERSOLD == config_get(config, "STOCH_OVERSOLD", 2000)
        STOCH_OVERBOUGHT == config_get(config, "STOCH_OVERBOUGHT", 8000)
        ADX_TREND_THRESHOLD == config_get(config, "ADX_TREND_THRESHOLD", 2500)
        VOLUME_SMA_MULTIPLIER == config_get(config, "VOLUME_SMA_MULTIPLIER", 150)
    IN  [bollinger |->
            [buy |-> IF lt(row.Close, row.Lower) THEN COEF_BOLLINGER ELSE 0,
             sell |-> IF gt(row.Close, row.Upper) THEN COEF_BOLLINGER ELSE 0],
         rsi |->
            IF below(row.RSI, RSI_OVERSOLD) THEN [buy |-> COEF_RSI, sell |-> 0]
            ELSE IF above(row.RSI, RSI_OVERBOUGHT) THEN [buy |-> 0, sell |-> COEF_RSI]
            ELSE NoScore,
         macd |->
            IF gt(row.MACD, row.Signal) /\ le(row.prev_MACD, row.prev_Signal)
              THEN [buy |-> COEF_MACD, sell |-> 0]
            ELSE IF lt(row.MACD, row.Signal) /\ ge(row.prev_MACD, row.prev_Signal)
              THEN [buy |-> 0, sell |-> COEF_MACD]
            ELSE NoScore,
         stoch |->
            IF below(row.Stoch_K, STOCH_OVERSOLD) /\ below(row.Stoch_D, STOCH_OVERSOLD)
              THEN [buy |-> COEF_STOCH, sell |-> 0]
            ELSE IF above(row.Stoch_K, STOCH_OVERBOUGHT) /\ above(row.Stoch_D, STOCH_OVERBOUGHT)
              THEN [buy |-> 0, sell |-> COEF_STOCH]
            ELSE NoScore,
         adx |->
            IF above(row.ADX, ADX_TREND_THRESHOLD)
              THEN IF gt(row.Close, row.SMA20)
                   THEN [buy |-> COEF_ADX_SMA, sell |-> 0]
                   ELSE [buy |-> 0, sell |-> COEF_ADX_SMA]
            ELSE NoScore,
         volume |->
            IF exceeds(row.Volume, VOLUME_SMA_MULTIPLIER, row.Volume_SMA)
              THEN IF gt(row.Close, row.prev_Close) THEN [buy |-> COEF_VOLUME, sell |-> 0]
                   ELSE IF lt(row.Close, row.prev_Close) THEN [buy |-> 0, sell |-> COEF_VOLUME]
                   ELSE NoScore
            ELSE NoScore]

\* backtest_engine._compute_signal_row, with the scores it decided on
_compute_signal_row(row, config) ==
    LET c == signal_row_scores(row, config)
        buy_score == total_buy(c)
        sell_score == total_sell(c)
    IN  [contrib |-> c, buy_score |-> buy_score, sell_score |-> sell_score,
         rec |-> threshold_logic(buy_score, sell_score,
                                 config_get(config, "BUY_SELL_THRESHOLD", 140),
                                 config_get(config, "BUY_SIGNAL", BUY_SIGNAL),
                                 config_get(config, "SELL_SIGNAL", SELL_SIGNAL),
                                 config_get(config, "OBSERVE_SIGNAL", OBSERVE_FALLBACK),
                                 config_get(config, "HOLD_SIGNAL", HOLD_FALLBACK))]

\* the names data_processing binds with "from .config import ...": the values
\* the configuration module had when the process started
imported_constants == original_config

\* data_processing.get_or_update_data lines 147-178 on the last row of the
\* frame (iloc[-1]) and the one before (iloc[-2], absent when len(df) < 2)
recommendation_scores(last_row, prev_row, K) ==
    LET has_prev == prev_row # <<>>
    IN  [bollinger |->
            [buy |-> IF lt(last_row.Close, last_row.Lower) THEN K.COEF_BOLLINGER ELSE 0,
             sell |-> IF gt(last_row.Close, last_row.Upper) THEN K.COEF_BOLLINGER ELSE 0],
         rsi |->
            IF below(last_row.RSI, K.RSI_OVERSOLD) THEN [buy |-> K.COEF_RSI, sell |-> 0]
            ELSE IF above(last_row.RSI, K.RSI_OVERBOUGHT) THEN [buy |-> 0, sell |-> K.COEF_RSI]
            ELSE NoScore,
         macd |->
            IF ~has_prev THEN NoScore
            ELSE IF gt(last_row.MACD, last_row.Signal) /\ le(prev_row[1].MACD, prev_row[1].Signal)
              THEN [buy |-> K.COEF_MACD, sell |-> 0]
            ELSE IF lt(last_row.MACD, last_row.Signal) /\ ge(prev_row[1].MACD, prev_row[1].Signal)
              THEN [buy |-> 0, sell |-> K.COEF_MACD]
            ELSE NoScore,
         stoch |->
            IF below(last_row.Stoch_K, K.STOCH_OVERSOLD) /\ below(last_row.Stoch_D, K.STOCH_OVERSOLD)
              THEN [buy |-> K.COEF_STOCH, sell |-> 0]
            ELSE IF above(last_row.Stoch_K, K.STOCH_OVERBOUGHT) /\ above(last_row.Stoch_D, K.STOCH_OVERBOUGHT)
              THEN [buy |-> 0, sell |-> K.COEF_STOCH]
            ELSE NoScore,
         adx |->
            IF above(last_row.ADX, K.ADX_TREND_THRESHOLD)
              THEN IF gt(last_row.Close, last_row.SMA20)
                   THEN [buy |-> K.COEF_ADX_SMA, sell |-> 0]
                   ELSE [buy |-> 0, sell |-> K.COEF_ADX_SMA]
            ELSE NoScore,
         volume |->
            IF has_prev /\ last_row.Volume_SMA # <<0>>
               /\ exceeds(last_row.Volume, K.VOLUME_SMA_MULTIPLIER, last_row.Volume_SMA)
              THEN IF gt(last_row.Close, prev_row[1].Close) THEN [buy |-> K.COEF_VOLUME, sell |-> 0]
                   ELSE IF lt(last_row.Close, prev_row[1].Close) THEN [buy |-> 0, sell |-> K.COEF_VOLUME]
                   ELSE NoScore
            ELSE NoScore]

\* data_processing.get_or_update_data lines 147-187: the recommendation
recommendation(last_row, prev_row, K) ==
    LET c == recommendation_scores(last_row, prev_row, K)
        buy_score == total_buy(c)
        sell_score == total_sell(c)
    IN  [contrib |-> c, buy_score |-> buy_score, sell_score |-> sell_score,
         rec |-> IF buy_score > sell_score + K.BUY_SELL_THRESHOLD THEN BUY_SIGNAL
                 ELSE IF sell_score > buy_score + K.BUY_SELL_THRESHOLD THEN SELL_SIGNAL
                 ELSE IF buy_score > 0 \/ sell_score > 0 THEN OBSERVE_SIGNAL
                 ELSE HOLD_SIGNAL]

\* rows put to the two scoring paths: one choice per rule
Closes == {NaN, <<100>>}
Bands == {<<NaN, NaN>>, <<<<105>>, <<120>>>>, <<<<80>>, <<95>>>>, <<<<90>>, <<110>>>>}
RSIs == {NaN, <<25>>, <<75>>}
MACDs == {<<NaN, NaN>>, <<<<1>>, <<0>>>>, <<<<0>>, <<1>>>>}
Stochs == {<<NaN, NaN>>, <<<<10>>, <<10>>>>, <<<<90>>, <<90>>>>}
Trends == {<<NaN, NaN>>, <<<<30>>, <<90>>>>, <<<<30>>, <<110>>>>, <<<<30>>, NaN>>, <<<<20>>, <<90>>>>}
Volumes == {<<NaN, NaN>>, <<<<200>>, <<100>>>>, <<<<100>>, <<100>>>>}

Row(close, band, rsi, macd, stoch, trend, volume) ==
    [Close |-> close, Lower |-> band[1], Upper |-> band[2], RSI |-> rsi,
     MACD |-> macd[1], Signal |-> macd[2],
     Stoch_K |-> stoch[1], Stoch_D |-> stoch[2],
     ADX |-> trend[1], SMA20 |-> trend[2],
     Volume |-> volume[1], Volume_SMA |-> volume[2]]

Rows ==
    {Row(c, b, r, m, s, t, v) :
        c \in Closes, b \in Bands, r \in RSIs, m \in MACDs, s \in Stochs,
        t \in Trends, v \in Volumes}

\* the row before: none (a one-row frame), or its MACD, Signal and Close
PrevRows ==
    {<<>>}
    \cup {<<[MACD |-> m[1], Signal |-> m[2], Close |-> c]>> :
            m \in {<<<<0>>, <<1>>>>, <<<<1>>, <<0>>>>}, c \in {<<100>>}}
    \cup {<<[MACD |-> NaN, Signal |-> NaN, Close |-> c]>> : c \in {NaN, <<90>>, <<110>>}}

\* the configuration of the specification's scoring example: every
\* coefficient 0 except COEF_RSI = 2, RSI_OVERSOLD = 30, margin 1
ExampleConfig ==
    [COEF_BOLLINGER |-> 0, COEF_RSI |-> 200, COEF_MACD |-> 0, COEF_STOCH |-> 0,
     COEF_ADX_SMA |-> 0, COEF_VOLUME |-> 0, RSI_OVERSOLD |-> 3000,
     BUY_SELL_THRESHOLD |-> 100]

\* what the configuration form can send to update_dict
ConfigEdits ==
    {ExampleConfig, [COEF_RSI |-> 100], [NOT_A_KEY |-> 100]}

NotScored ==
    [done |-> FALSE, row |-> <<>>, prev_row |-> <<>>, config |-> original_config,
     live |-> <<>>, bt |-> <<>>]

\* no replay program was started: the process is the dashboard
NoFeed == [program |-> "app"]

\* run_backtest before its first line
NotRun ==
    [pc |-> "idle", k |-> 0, rec |-> <<>>, position |-> FALSE, opened |-> 0,
     closed |-> 0, orders |-> <<>>, result |-> <<>>]

\* run_single_simulation before its first line
\* run_backtest not called yet
NotScoring ==
    [pc |-> "idle", config_arg |-> <<>>, started_with |-> original_config,
     df |-> <<>>, rec |-> <<>>]

\* toolbox.population not called yet
NoPopulation == [pc |-> "idle", gen |-> 0, pop |-> <<>>]

\* no button clicked yet
NoRequests == [clicks |-> 0, calls |-> <<>>, bt_lock |-> FALSE]

\* config.py as the repository has it
OriginalFile == [values |-> original_config, types |-> original_types, mtime |-> 0]

\* the module config as config_editor imported it (line 3)
ImportedModule ==
    [values |-> original_config, types |-> original_types,
     pyc |-> [mtime |-> 0,
              size |-> source_size(original_config, original_types,
                                   DOMAIN original_config),
              values |-> original_config, types |-> original_types]]

\* no Config Store function called yet
NoStoreCall ==
    [op |-> "none", n |-> 0, edit |-> <<>>, before |-> original_config,
     before_types |-> original_types,
     seen |-> {[config |-> original_config,
                hash |-> _hash_config(original_config, original_types)]}]

\* run_optimizer not called yet
NotOptimizing ==
    [pc |-> "idle", gen |-> 0, n_generations |-> 0, state |-> <<>>, hof |-> <<>>,
     runs |-> 0, result |-> <<>>, loaded_from |-> <<>>, error |-> "",
     progress |-> <<>>]

NotStarted ==
    [pc |-> "idle", i |-> 0,
     portfolio |-> [cash |-> 0, stocks |-> NoStocks, closed_trades |-> NoTrades],
     last_auto_trade_rec_for_ticker |-> None, log |-> <<>>, result |-> <<>>]

(***************************************************************************)
(* History variables                                                       *)
(***************************************************************************)
NoCall ==
    [op |-> "none", ticker |-> None, quantity |-> 0, price |-> 0,
     color |-> None, raised |-> FALSE, realized_pnl |-> FracOfInt(0),
     before |-> InitialPortfolioState, disk_before |-> MissingFile]

Call(op, ticker, quantity, price, color, raised, realized_pnl) ==
    [op |-> op, ticker |-> ticker, quantity |-> quantity, price |-> price,
     color |-> color, raised |-> raised, realized_pnl |-> realized_pnl,
     before |-> portfolio, disk_before |-> disk]

\* the worked scenario of the specification
Scenario ==
    << [op |-> "buy",  ticker |-> "AAPL", quantity |-> 10, price |-> 150],
       [op |-> "buy",  ticker |-> "AAPL", quantity |-> 10, price |-> 170],
       [op |-> "sell", ticker |-> "AAPL", quantity |-> 15, price |-> 180] >>

ScenarioStep(op, ticker, quantity, price) ==
    IF /\ scen \in 0..(Len(Scenario) - 1)
       /\ Scenario[scen + 1] =
            [op |-> op, ticker |-> ticker, quantity |-> quantity, price |-> price]
    THEN scen + 1
    ELSE -1

History(call) ==
    /\ last' = call
    /\ prev' = last
    /\ scen' = ScenarioStep(call.op, call.ticker, call.quantity, call.price)
    /\ buy_log' =
         [t \in Tickers |->
            IF call.op = "reset" THEN <<>>
            ELSE IF t # call.ticker \/ call.color = "danger" THEN buy_log[t]
            ELSE IF call.op = "buy" /\ call.color = "success"
                 THEN IF t \notin DOMAIN portfolio.stocks
                      THEN << <<call.quantity, call.price>> >>
                      ELSE IF buy_log[t] # <<>>
                           THEN Append(buy_log[t], <<call.quantity, call.price>>)
                           ELSE <<>>
            ELSE <<>>]

(***************************************************************************)
(* Calls into the ledger (shared by the handlers and the direct API)       *)
(***************************************************************************)
Commit(pf, saved) ==
    /\ portfolio' = pf
    /\ initial_portfolio_state' = IF aliased THEN pf ELSE initial_portfolio_state
    /\ disk' = IF saved THEN _save_portfolio(pf) ELSE disk
    /\ aliased' = aliased
    /\ nops' = nops + 1
    /\ UNCHANGED off_ledger_vars

CallBuy(ticker, quantity, price) ==
    LET r == _buy_stock(portfolio, ticker, quantity, price)
    IN  /\ Commit(r.portfolio, r.color = "success")
        /\ History(Call("buy", ticker, quantity, price, r.color, r.raised, FracOfInt(0)))

CallSell(ticker, quantity, price) ==
    LET r == _sell_stock(portfolio, ticker, quantity, price)
    IN  /\ Commit(r.portfolio, r.color = "success")
        /\ History(Call("sell", ticker, quantity, price, r.color, FALSE, r.realized_pnl))

CallReset ==
    /\ Commit(reset_portfolio(portfolio, initial_portfolio_state), TRUE)
    /\ History(Call("reset", None, 0, 0, "info", FALSE, FracOfInt(0)))

(***************************************************************************)
(* Initial state: TraderState() constructed over whatever FILE_PATH holds  *)
(***************************************************************************)
LedgerInit ==
    /\ disk \in StartFiles
    /\ initial_portfolio_state = InitialPortfolioState
    /\ portfolio = _load_portfolio(disk, InitialPortfolioState)
    /\ aliased = ~load_ok(disk)
    /\ latest_data = [ticker |-> None, close |-> 0, rec |-> "",
                      last_auto_trade_rec |-> [t \in Tickers |-> None]]
    /\ last = NoCall
    /\ prev = NoCall
    /\ nops = 0
    /\ buy_log = [t \in Tickers |-> <<>>]
    /\ scen = IF portfolio = InitialPortfolioState THEN 0 ELSE -1
    /\ auto_log = <<>>
    /\ error_message = None

\* the Config Store as imported, nothing scored yet
ScoreIdle ==
    /\ current = original_config
    /\ scored = NotScored

\* no replay program running
ReplayIdle ==
    /\ feed = NoFeed
    /\ sim = NotStarted
    /\ engine = NotRun
    /\ scoring = NotScoring

\* no optimizer state file, no optimizer run
OptimizerIdle ==
    /\ optimizer_state_file = <<>>
    /\ optimizer = NotOptimizing

\* no population, no request, config.py and the store as imported
ServiceIdle ==
    /\ population = NoPopulation
    /\ requests = NoRequests
    /\ config_file = OriginalFile
    /\ current_types = original_types
    /\ config_module = ImportedModule
    /\ store_log = NoStoreCall

Init == LedgerInit /\ ScoreIdle /\ ReplayIdle /\ OptimizerIdle /\ ServiceIdle

(***************************************************************************)
(* The ledger driven with the arguments the handlers can pass: a positive  *)
(* integer quantity (callbacks.py:158, 199) and a last Close as the price  *)
(***************************************************************************)
Buy ==
    /\ nops < MaxOps
    /\ \E t \in Tickers, q \in Quantities, p \in Prices : CallBuy(t, q, p)
    /\ UNCHANGED <<latest_data, auto_log, error_message>>

Sell ==
    /\ nops < MaxOps
    /\ \E t \in Tickers, q \in Quantities, p \in Prices : CallSell(t, q, p)
    /\ UNCHANGED <<latest_data, auto_log, error_message>>

Reset ==
    /\ nops < MaxOps
    /\ CallReset
    /\ UNCHANGED <<latest_data, auto_log, error_message>>

Next == Buy \/ Sell \/ Reset

Spec == Init /\ [][Next]_vars

(***************************************************************************)
(* The ledger when _save_portfolio can raise.  No method catches the       *)
(* exception of its save, and every method changes self.portfolio before   *)
(* it saves (lines 65-66, 81-96, 107-110).                                 *)
(***************************************************************************)
MaxSaves == 2

\* lines 46-47: open(FILE_PATH, 'w') raises and the file is as it was, or
\* json.dump raises after open has emptied the file
failed_save(file) == {file, MalformedFile}

\* the portfolio the raising method leaves: nothing restores the dict
after_failed_save_rolled_back(pf, before) == before

after_failed_save(pf, before) == pf

CallSaveFails(op, ticker, quantity, price, pf) ==
    /\ \E file \in failed_save(disk) : disk' = file
    /\ portfolio' = after_failed_save(pf, portfolio)
    /\ initial_portfolio_state' =
          IF aliased THEN portfolio' ELSE initial_portfolio_state
    /\ aliased' = aliased
    /\ nops' = nops + 1
    /\ UNCHANGED off_ledger_vars
    /\ History(Call(op, ticker, quantity, price, "error", TRUE, FracOfInt(0)))

BuySaveFails ==
    /\ nops < MaxSaves
    /\ \E t \in Tickers, q \in Quantities, p \in Prices :
          LET r == _buy_stock(portfolio, t, q, p)
          IN  /\ r.color = "success"
              /\ CallSaveFails("buy", t, q, p, r.portfolio)
    /\ UNCHANGED <<latest_data, auto_log, error_message>>

SellSaveFails ==
    /\ nops < MaxSaves
    /\ \E t \in Tickers, q \in Quantities, p \in Prices :
          LET r == _sell_stock(portfolio, t, q, p)
          IN  /\ r.color = "success"
              /\ CallSaveFails("sell", t, q, p, r.portfolio)
    /\ UNCHANGED <<latest_data, auto_log, error_message>>

ResetSaveFails ==
    /\ nops < MaxSaves
    /\ CallSaveFails("reset", None, 0, 0,
                     reset_portfolio(portfolio, initial_portfolio_state))
    /\ UNCHANGED <<latest_data, auto_log, error_message>>

\* the process starts without a file, or on a file it can load
SaveInit == Init /\ disk \in {MissingFile} \cup {JsonFile(d) : d \in LoadableData}

\* the calls whose save goes through
BuySaves == nops < MaxSaves /\ Buy

SellSaves == nops < MaxSaves /\ Sell

ResetSaves == nops < MaxSaves /\ Reset

SaveNext ==
    \/ BuySaves \/ SellSaves \/ ResetSaves
    \/ BuySaveFails \/ SellSaveFails \/ ResetSaveFails

SaveSpec == SaveInit /\ [][SaveNext]_vars

(***************************************************************************)
(* The ledger from a fresh portfolio, bought and sold in lots that make    *)
(* the average price a fraction of a cent (10 at 150 and 5 at 170 average  *)
(* 470/3); no reset                                                        *)
(***************************************************************************)
MaxTrades == 3

TradeQuantities == {5, 10}

TradeInit == Init /\ disk = MissingFile

TradeBuy ==
    /\ nops < MaxTrades
    /\ \E t \in Tickers, q \in TradeQuantities, p \in Prices : CallBuy(t, q, p)
    /\ UNCHANGED <<latest_data, auto_log, error_message>>

TradeSell ==
    /\ nops < MaxTrades
    /\ \E t \in Tickers, q \in TradeQuantities, p \in Prices : CallSell(t, q, p)
    /\ UNCHANGED <<latest_data, auto_log, error_message>>

TradeNext == TradeBuy \/ TradeSell

TradeSpec == TradeInit /\ [][TradeNext]_vars

(***************************************************************************)
(* The ledger API called directly, with unvalidated arguments              *)
(***************************************************************************)
RawBuy ==
    /\ nops < MaxOps
    /\ \E t \in Tickers, q \in AnyQuantities, p \in AnyPrices : CallBuy(t, q, p)
    /\ UNCHANGED <<latest_data, auto_log, error_message>>

RawSell ==
    /\ nops < MaxOps
    /\ \E t \in Tickers, q \in AnyQuantities, p \in AnyPrices : CallSell(t, q, p)
    /\ UNCHANGED <<latest_data, auto_log, error_message>>

RawReset ==
    /\ nops < MaxOps
    /\ CallReset
    /\ UNCHANGED <<latest_data, auto_log, error_message>>

RawNext == RawBuy \/ RawSell \/ RawReset

RawSpec == Init /\ [][RawNext]_vars

(***************************************************************************)
(* The Dash handlers of callbacks.py                                       *)
(***************************************************************************)
\* an absent (None) numeric input is the empty tuple, a present one <<n>>
ManualQuantityInputs == {<<>>, <<0>>, <<-5>>} \cup {<<q>> : q \in Quantities}
AutoQuantityInputs == {<<>>, <<0>>} \cup {<<q>> : q \in Quantities}

\* what get_or_update_data hands back: an error message, or the frame's last
\* Close together with the recommendation
FetchResults ==
    {[error |-> TRUE, close |-> 0, rec |-> ""]}
    \cup {[error |-> FALSE, close |-> c, rec |-> r] : c \in AppPrices, r \in Signals}

\* the error message of a fetch that failed (data_processing.py:139-142)
FetchFailed == "fetch failed"

\* latest_data["df"].empty
df_empty(ld) == ld.close = 0

\* a handler run that returns before touching the state
NoUpdate == UNCHANGED vars

update_analysis_and_graphs(changed_id, active_tab, ticker, bt_lock, fetched) ==
    IF changed_id = "analysis-update" /\ active_tab = "tab-backtest"
      THEN NoUpdate
    ELSE IF bt_lock
      THEN NoUpdate
    ELSE IF fetched.error
      THEN /\ error_message' = FetchFailed
           /\ UNCHANGED <<portfolio, initial_portfolio_state, aliased, disk,
                          latest_data, last, prev, nops, buy_log, scen, auto_log,
                          off_ledger_vars>>
    ELSE /\ latest_data' = [latest_data EXCEPT !.ticker = ticker,
                                                !.close = fetched.close,
                                                !.rec = fetched.rec]
         /\ error_message' = ""
         /\ nops' = nops + 1
         /\ UNCHANGED <<portfolio, initial_portfolio_state, aliased, disk,
                        last, prev, buy_log, scen, auto_log, off_ledger_vars>>

handle_manual_trading(changed_id, ticker, cantidad_manual) ==
    IF df_empty(latest_data)
      THEN NoUpdate
    ELSE IF cantidad_manual = <<>> \/ cantidad_manual[1] <= 0
      THEN NoUpdate
    ELSE IF changed_id = "comprar"
      THEN CallBuy(ticker, cantidad_manual[1], latest_data.close) /\ UNCHANGED <<latest_data, auto_log, error_message>>
    ELSE IF changed_id = "vender"
      THEN CallSell(ticker, cantidad_manual[1], latest_data.close) /\ UNCHANGED <<latest_data, auto_log, error_message>>
    ELSE NoUpdate

\* lines 172-183: the handler calls reset_portfolio and nothing else
handle_reset_portfolio_clearing(n_clicks) ==
    IF n_clicks > 0
    THEN /\ CallReset
         /\ latest_data' = [latest_data EXCEPT
                               !.last_auto_trade_rec = [t \in Tickers |-> None]]
         /\ UNCHANGED <<auto_log, error_message>>
    ELSE NoUpdate

handle_reset_portfolio(n_clicks) ==
    IF n_clicks > 0 THEN CallReset /\ UNCHANGED <<latest_data, auto_log, error_message>> ELSE NoUpdate

record_auto_rec(ticker, rec) ==
    latest_data' = [latest_data EXCEPT !.last_auto_trade_rec[ticker] = rec]

\* lines 218, 232: the anti-repeat test
auto_trade_due_always(last_auto_rec_for_ticker, signal) == TRUE

auto_trade_due(last_auto_rec_for_ticker, signal) ==
    last_auto_rec_for_ticker # signal

\* lines 224-225, 238-239: the signal is recorded only when the ledger
\* reported success
auto_rec_after_trade_never(last_auto_rec_for_ticker, signal, notification_color) ==
    last_auto_rec_for_ticker

auto_rec_after_trade_whatever(last_auto_rec_for_ticker, signal, notification_color) ==
    signal

auto_rec_after_trade(last_auto_rec_for_ticker, signal, notification_color) ==
    IF notification_color = "success" THEN signal ELSE last_auto_rec_for_ticker

\* one automated evaluation: a run of the automation that got as far as
\* looking at the recommendation
Evaluation(ticker, rec, recorded_before, recorded_after, fired, color, covered, before, after) ==
    [ticker |-> ticker, rec |-> rec,
     recorded_before |-> recorded_before, recorded_after |-> recorded_after,
     fired |-> fired, color |-> color, covered |-> covered,
     before |-> [cash |-> before.cash, stocks |-> before.stocks,
                 closed_trades |-> before.closed_trades],
     after |-> [cash |-> after.cash, stocks |-> after.stocks,
                closed_trades |-> after.closed_trades]]

handle_auto_trading(ticker, is_auto_trade_enabled, auto_trade_quantity) ==
    LET auto_trade_qty ==
            IF auto_trade_quantity # <<>> /\ auto_trade_quantity[1] > 0
            THEN auto_trade_quantity[1] ELSE 1
        rec == latest_data.rec
        now_price == latest_data.close
        last_auto_rec_for_ticker == latest_data.last_auto_trade_rec[ticker]
        covered == portfolio.cash >= auto_trade_qty * now_price
        \* an evaluation that places no order
        no_trade(recorded_after) ==
            /\ record_auto_rec(ticker, recorded_after)
            /\ auto_log' = Append(auto_log,
                   Evaluation(ticker, rec, last_auto_rec_for_ticker, recorded_after,
                              FALSE, None, covered, portfolio, portfolio))
            /\ nops' = nops + 1
            /\ UNCHANGED <<portfolio, initial_portfolio_state, aliased, disk,
                           last, prev, buy_log, scen, error_message, off_ledger_vars>>
        \* an evaluation that called the ledger, with the result r
        traded(r) ==
            LET recorded_after == auto_rec_after_trade(last_auto_rec_for_ticker, rec, r.color)
            IN  /\ record_auto_rec(ticker, recorded_after)
                /\ auto_log' = Append(auto_log,
                       Evaluation(ticker, rec, last_auto_rec_for_ticker, recorded_after,
                                  TRUE, r.color, covered, portfolio, r.portfolio))
                /\ UNCHANGED error_message
    IN  IF ~is_auto_trade_enabled
          THEN NoUpdate
        ELSE IF df_empty(latest_data) \/ latest_data.ticker # ticker
          THEN NoUpdate
        ELSE IF rec = BUY_SIGNAL
          THEN IF auto_trade_due(last_auto_rec_for_ticker, BUY_SIGNAL)
               THEN IF auto_trade_qty <= 0
                    THEN no_trade(last_auto_rec_for_ticker)
                    ELSE /\ CallBuy(ticker, auto_trade_qty, now_price)
                         /\ traded(_buy_stock(portfolio, ticker, auto_trade_qty, now_price))
               ELSE no_trade(last_auto_rec_for_ticker)
        ELSE IF rec = SELL_SIGNAL
          THEN IF auto_trade_due(last_auto_rec_for_ticker, SELL_SIGNAL)
               THEN IF auto_trade_qty <= 0
                    THEN no_trade(last_auto_rec_for_ticker)
                    ELSE /\ CallSell(ticker, auto_trade_qty, now_price)
                         /\ traded(_sell_stock(portfolio, ticker, auto_trade_qty, now_price))
               ELSE no_trade(last_auto_rec_for_ticker)
        ELSE no_trade(rec)

UpdateAnalysis ==
    /\ nops < MaxOps
    /\ \E changed_id \in {"refresh-button", "analysis-update"},
          active_tab \in {"tab-candlestick", "tab-backtest"},
          ticker \in Tickers, bt_lock \in BOOLEAN, fetched \in FetchResults :
            update_analysis_and_graphs(changed_id, active_tab, ticker, bt_lock, fetched)

ManualTrading ==
    /\ nops < MaxOps
    /\ \E changed_id \in {"comprar", "vender"}, ticker \in Tickers,
          cantidad_manual \in ManualQuantityInputs :
            handle_manual_trading(changed_id, ticker, cantidad_manual)

ResetPortfolio ==
    /\ nops < MaxOps
    /\ \E n_clicks \in {0, 1} : handle_reset_portfolio(n_clicks)

AutoTrading ==
    /\ nops < MaxOps
    /\ \E ticker \in Tickers, enabled \in BOOLEAN, qty \in AutoQuantityInputs :
            handle_auto_trading(ticker, enabled, qty)

AppNext == UpdateAnalysis \/ ManualTrading \/ ResetPortfolio \/ AutoTrading

AppSpec == Init /\ [][AppNext]_vars

(***************************************************************************)
(* The ticks of analysis-update.  The interval is the Input of both        *)
(* update_analysis_and_graphs (line 63) and handle_auto_trading (line      *)
(* 189).  When get_or_update_data returns an error message the first       *)
(* returns at line 91 and leaves latest_data as it was; the second runs    *)
(* on what latest_data holds.  A tick is taken here as the first callback  *)
(* followed by the second.                                                 *)
(***************************************************************************)
\* the automation's run on a tick whose fetch succeeded
FetchedTick ==
    /\ error_message = ""
    /\ AutoTrading

\* the automation's run on a tick whose fetch failed
FailedFetchTick ==
    /\ error_message = FetchFailed
    /\ AutoTrading

TickNext ==
    UpdateAnalysis \/ ManualTrading \/ ResetPortfolio \/ FetchedTick \/ FailedFetchTick

TickSpec == Init /\ [][TickNext]_vars


(***************************************************************************)
(* backtest.py: the trading simulator, a program of its own.  The bars it  *)
(* is started on are WarmUp rows followed by the rows of feed.df.          *)
(***************************************************************************)
MaxBars == 3

\* rows of a replay: nothing fires; RSI oversold; RSI overbought; MACD above
\* its signal line (a crossover after any of the three before); and a row
\* with no indicator defined
QuietBar ==
    Row(<<100>>, <<<<90>>, <<110>>>>, <<50>>, <<<<0>>, <<1>>>>, <<<<50>>, <<50>>>>,
        <<<<20>>, <<100>>>>, <<<<100>>, <<100>>>>)
LowBar == [QuietBar EXCEPT !.RSI = <<25>>]
HighBar == [QuietBar EXCEPT !.RSI = <<75>>, !.Close = <<110>>, !.Upper = <<120>>]
UpBar == [QuietBar EXCEPT !.MACD = <<1>>, !.Signal = <<0>>]
UndefinedBar ==
    [Close |-> <<100>>, Lower |-> NaN, Upper |-> NaN, RSI |-> NaN, MACD |-> NaN,
     Signal |-> NaN, Stoch_K |-> NaN, Stoch_D |-> NaN, ADX |-> NaN, SMA20 |-> NaN,
     Volume |-> <<100>>, Volume_SMA |-> NaN]
ReplayBars == {QuietBar, LowBar, HighBar, UpBar, UndefinedBar}

Frames == UNION {[1..n -> ReplayBars] : n \in 0..MaxBars}

\* line 182
start_index == 25

WarmUp(n) == [k \in 1..n |-> QuietBar]

SimFeeds ==
    {[program |-> "simulator", df |-> df, warm |-> w, ticker_symbol |-> "AAPL",
      initial_cash |-> c, auto_trade_quantity |-> 10] :
        df \in Frames, w \in {0, start_index}, c \in {1500, DefaultCash}}

\* line 162: df.dropna()
dropna(df) ==
    SelectSeq(df, LAMBDA row : \A f \in DOMAIN row : row[f] # NaN)

\* the frame the loop runs over
simulation_frame(f) == dropna(WarmUp(f.warm) \o f.df)

NOT_ENOUGH_DATA == "No hay datos suficientes"

\* lines 43-48, 66-93, 99: the literals get_recommendation scores with
recommendation_literals ==
    [RSI_OVERSOLD |-> 3000, RSI_OVERBOUGHT |-> 7000,
     STOCH_OVERSOLD |-> 2000, STOCH_OVERBOUGHT |-> 8000,
     ADX_TREND_THRESHOLD |-> 2500, VOLUME_SMA_MULTIPLIER |-> 150,
     COEF_BOLLINGER |-> 100, COEF_RSI |-> 200, COEF_MACD |-> 200,
     COEF_STOCH |-> 200, COEF_ADX_SMA |-> 100, COEF_VOLUME |-> 100,
     BUY_SELL_THRESHOLD |-> 100]

\* backtest.get_recommendation: lines 59-106 repeat the rules and the
\* decision of get_or_update_data on the last two rows of the slice
get_recommendation(df_with_indicators) ==
    LET n == Len(df_with_indicators)
    IN  IF n < 26 THEN NOT_ENOUGH_DATA
        ELSE recommendation(df_with_indicators[n],
                            IF n >= 2 THEN <<df_with_indicators[n - 1]>> ELSE <<>>,
                            recommendation_literals).rec

\* df.iloc[:i+1], for the 0-based i of the loop
iloc_upto(df, i) == SubSeq(df, 1, i + 1)

\* lines 203-219: the simulator's own copy of the buy
simulated_buy(pf, ticker, quantity, price) ==
    LET costo_total == quantity * price
    IN  IF buy_has_funds(pf.cash, costo_total)
        THEN [portfolio |->
                [pf EXCEPT
                   !.stocks = put_stock(pf.stocks, ticker,
                       IF ticker \notin DOMAIN pf.stocks
                       THEN [qty |-> quantity, avg_price |-> FracOfInt(price)]
                       ELSE [qty |-> pf.stocks[ticker].qty + quantity,
                             avg_price |-> merged_avg_price(pf.stocks[ticker], quantity, price)]),
                   !.cash = pf.cash - costo_total],
              color |-> "success"]
        ELSE [portfolio |-> pf, color |-> "danger"]

\* lines 223-245: the simulator's own copy of the sell
simulated_sell(pf, ticker, quantity, price) ==
    IF sell_has_shares(pf.stocks, ticker, quantity)
    THEN LET avg_buy_price == pf.stocks[ticker].avg_price
             realized_pnl == realized_pnl_of(price, avg_buy_price, quantity)
         IN  [portfolio |->
                [pf EXCEPT
                   !.cash = pf.cash + quantity * price,
                   !.closed_trades = Append(pf.closed_trades,
                       closed_trade(ticker, quantity, avg_buy_price, price, realized_pnl)),
                   !.stocks = remaining_stocks(pf.stocks, ticker, quantity)],
              color |-> "success"]
    ELSE [portfolio |-> pf, color |-> "danger"]

\* lines 159-185: up to the loop
simulation_start(f) ==
    LET df == simulation_frame(f)
    IN  IF df = <<>> \/ Len(df) <= start_index
        THEN [NotStarted EXCEPT !.pc = "done", !.result = <<0, 0>>]
        ELSE [NotStarted EXCEPT
                !.pc = "loop", !.i = start_index,
                !.portfolio = [cash |-> f.initial_cash, stocks |-> NoStocks,
                               closed_trades |-> NoTrades]]

\* lines 187-247: one pass of the loop, at the 0-based index st.i
simulation_bar(st, f) ==
    LET df == simulation_frame(f)
        current_price == df[st.i + 1].Close[1]
        recommended == get_recommendation(iloc_upto(df, st.i))
        recorded == st.last_auto_trade_rec_for_ticker
        covered == st.portfolio.cash >= f.auto_trade_quantity * current_price
        evaluated(recorded_after, fired, color, after) ==
            [st EXCEPT
               !.i = st.i + 1,
               !.portfolio = after,
               !.last_auto_trade_rec_for_ticker = recorded_after,
               !.log = Append(st.log,
                   Evaluation(f.ticker_symbol, recommended, recorded, recorded_after,
                              fired, color, covered, st.portfolio, after))]
        traded(r) ==
            evaluated(auto_rec_after_trade(recorded, recommended, r.color),
                      TRUE, r.color, r.portfolio)
    IN  IF recommended = NOT_ENOUGH_DATA
          THEN [st EXCEPT !.i = st.i + 1]
        ELSE IF recommended = BUY_SIGNAL
          THEN IF auto_trade_due(recorded, BUY_SIGNAL)
               THEN traded(simulated_buy(st.portfolio, f.ticker_symbol,
                                         f.auto_trade_quantity, current_price))
               ELSE evaluated(recorded, FALSE, None, st.portfolio)
        ELSE IF recommended = SELL_SIGNAL
          THEN IF auto_trade_due(recorded, SELL_SIGNAL)
               THEN traded(simulated_sell(st.portfolio, f.ticker_symbol,
                                          f.auto_trade_quantity, current_price))
               ELSE evaluated(recorded, FALSE, None, st.portfolio)
        ELSE evaluated(recommended, FALSE, None, st.portfolio)

RECURSIVE sum_realized(_)
sum_realized(closed_trades) ==
    IF closed_trades = <<>> THEN 0
    ELSE closed_trades[1].GananciaPerdidaRealizada + sum_realized(Tail(closed_trades))

\* lines 250-283: (final_portfolio_value, net_pnl, total_realized_pnl), the
\* open position valued at the last Close; the third in hundredths
simulation_summary(st, f) ==
    LET df == simulation_frame(f)
        held == IF f.ticker_symbol \in DOMAIN st.portfolio.stocks
                THEN st.portfolio.stocks[f.ticker_symbol].qty ELSE 0
        final_portfolio_value == st.portfolio.cash + df[Len(df)].Close[1] * held
    IN  [st EXCEPT
           !.pc = "done",
           !.result = <<final_portfolio_value, final_portfolio_value - f.initial_cash,
                        sum_realized(st.portfolio.closed_trades)>>]

\* the loop run to the last row
RECURSIVE simulation_run(_, _)
simulation_run(st, f) ==
    IF st.pc = "loop" /\ st.i < Len(simulation_frame(f))
    THEN simulation_run(simulation_bar(st, f), f)
    ELSE st

SimInit ==
    /\ LedgerInit /\ disk = MissingFile
    /\ ScoreIdle
    /\ feed \in SimFeeds
    /\ sim = NotStarted
    /\ engine = NotRun
    /\ scoring = NotScoring
    /\ OptimizerIdle
    /\ ServiceIdle

SimStart ==
    /\ feed.program = "simulator"
    /\ sim.pc = "idle"
    /\ sim' = simulation_start(feed)
    /\ UNCHANGED <<ledger_vars, score_vars, optimizer_vars, service_vars, feed, engine, scoring>>

SimBar ==
    /\ feed.program = "simulator"
    /\ sim.pc = "loop"
    /\ sim.i < Len(simulation_frame(feed))
    /\ sim' = simulation_bar(sim, feed)
    /\ UNCHANGED <<ledger_vars, score_vars, optimizer_vars, service_vars, feed, engine, scoring>>

SimFinish ==
    /\ feed.program = "simulator"
    /\ sim.pc = "loop"
    /\ sim.i >= Len(simulation_frame(feed))
    /\ sim' = simulation_summary(sim, feed)
    /\ UNCHANGED <<ledger_vars, score_vars, optimizer_vars, service_vars, feed, engine, scoring>>

SimNext == SimStart \/ SimBar \/ SimFinish


(***************************************************************************)
(* backtest_engine.py: run_backtest.  Backtest and Strategy belong to the  *)
(* backtesting library: it calls MyStrategy.next() bar by bar, a moment    *)
(* before the bar closes, and fills a market order at the open of the bar  *)
(* after, so an order placed at the last bar is never filled.  Whether the *)
(* first call is at the first or the second bar is left open               *)
(* (feed.first_next), and so is what the statistics report once the        *)
(* strategy has traded.                                                    *)
(***************************************************************************)
EngineFeeds ==
    {[program |-> "engine", df |-> df, first_next |-> n] :
        df \in Frames, n \in {1, 2}}

\* lines 38-43: the rec column, each row scored with the row before it
rec_column_shifted_back(df, config) ==
    [k \in 1..Len(df) |->
        _compute_signal_row(shift1(df[k], IF k = Len(df) THEN <<>> ELSE <<df[k + 1]>>),
                            config).rec]

rec_column(df, config) ==
    [k \in 1..Len(df) |->
        _compute_signal_row(shift1(df[k], IF k = 1 THEN <<>> ELSE <<df[k - 1]>>),
                            config).rec]

\* lines 25-49: up to Backtest(df, MyStrategy, ...)
backtest_start(f, config) ==
    IF f.df = <<>>
    THEN [NotRun EXCEPT !.pc = "done", !.result = <<None>>]
    ELSE [NotRun EXCEPT !.pc = "run", !.k = f.first_next,
                        !.rec = rec_column(f.df, config)]

\* self.buy() with no size: all the equity; self.position.close(): all of
\* the position
Order(bar, side, filled) ==
    [bar |-> bar, side |-> side, size |-> <<>>, filled |-> filled]

\* lines 11-16: MyStrategy.next at bar st.k, then the library's fill
strategy_next(st) ==
    LET last_bar == st.k = Len(st.rec)
    IN  IF st.rec[st.k] = BUY_SIGNAL /\ ~st.position
        THEN [st EXCEPT !.k = st.k + 1,
                        !.orders = Append(st.orders, Order(st.k, "buy", ~last_bar)),
                        !.position = ~last_bar,
                        !.opened = IF last_bar THEN st.opened ELSE st.opened + 1]
        ELSE IF st.rec[st.k] = SELL_SIGNAL /\ st.position
        THEN [st EXCEPT !.k = st.k + 1,
                        !.orders = Append(st.orders, Order(st.k, "sell", ~last_bar)),
                        !.position = last_bar,
                        !.closed = IF last_bar THEN st.closed ELSE st.closed + 1]
        ELSE [st EXCEPT !.k = st.k + 1]

\* what the library can report: without a filled order no trade and no
\* return; otherwise a return of either sign, and the closed trades with or
\* without the position still open
Statistics(st) ==
    IF st.opened = 0
    THEN {[return_pct |-> 0, trades |-> 0]}
    ELSE {[return_pct |-> r, trades |-> n] :
            r \in {-1, 0, 1}, n \in {st.closed, st.opened}}

\* lines 57-79: the result assembled from the statistics
backtest_result(stats) ==
    [profit_pct |-> stats.return_pct, trades |-> stats.trades]

\* the strategy run to the last bar
RECURSIVE strategy_run(_)
strategy_run(st) ==
    IF st.pc = "run" /\ st.k <= Len(st.rec) THEN strategy_run(strategy_next(st)) ELSE st

EngineInit ==
    /\ LedgerInit /\ disk = MissingFile
    /\ ScoreIdle
    /\ feed \in EngineFeeds
    /\ sim = NotStarted
    /\ engine = NotRun
    /\ scoring = NotScoring
    /\ OptimizerIdle
    /\ ServiceIdle

EngineStart ==
    /\ feed.program = "engine"
    /\ engine.pc = "idle"
    /\ engine' = backtest_start(feed, current)
    /\ UNCHANGED <<ledger_vars, score_vars, optimizer_vars, service_vars, feed, sim, scoring>>

EngineBar ==
    /\ feed.program = "engine"
    /\ engine.pc = "run"
    /\ engine.k <= Len(engine.rec)
    /\ engine' = strategy_next(engine)
    /\ UNCHANGED <<ledger_vars, score_vars, optimizer_vars, service_vars, feed, sim, scoring>>

EngineFinish ==
    /\ feed.program = "engine"
    /\ engine.pc = "run"
    /\ engine.k > Len(engine.rec)
    /\ \E stats \in Statistics(engine) :
         engine' = [engine EXCEPT !.pc = "done", !.result = <<backtest_result(stats)>>]
    /\ UNCHANGED <<ledger_vars, score_vars, optimizer_vars, service_vars, feed, sim, scoring>>

EngineNext == EngineStart \/ EngineBar \/ EngineFinish

(***************************************************************************)
(* The replay programs: the simulator or the engine on a frame of bars     *)
(***************************************************************************)
ReplayInit == SimInit \/ EngineInit

ReplayNext == SimNext \/ EngineNext

ReplaySpec == ReplayInit /\ [][ReplayNext]_vars

(***************************************************************************)
(* The automation: the Dash handlers on one ticker at one price, followed  *)
(* for more events, or the simulator on a frame of bars                    *)
(***************************************************************************)
MaxEvents == 6

AutoQuote == {[error |-> FALSE, close |-> 150, rec |-> r] :
                r \in Signals}

AutoInit == (Init /\ disk = MissingFile) \/ SimInit

AutoUpdate ==
    /\ feed.program = "app"
    /\ nops < MaxEvents
    /\ \E fetched \in AutoQuote :
         update_analysis_and_graphs("refresh-button", "tab-candlestick", "AAPL", FALSE, fetched)

AutoManual ==
    /\ feed.program = "app"
    /\ nops < MaxEvents
    /\ \E changed_id \in {"comprar", "vender"} :
         handle_manual_trading(changed_id, "AAPL", <<10>>)

AutoReset ==
    /\ feed.program = "app"
    /\ nops < MaxEvents
    /\ handle_reset_portfolio(1)

AutoEvaluate ==
    /\ feed.program = "app"
    /\ nops < MaxEvents
    /\ \E qty \in {<<10>>, <<15>>} : handle_auto_trading("AAPL", TRUE, qty)

AutoNext ==
    \/ AutoUpdate \/ AutoManual \/ AutoReset \/ AutoEvaluate
    \/ SimStart \/ SimBar \/ SimFinish

AutoSpec == AutoInit /\ [][AutoNext]_vars

(***************************************************************************)
(* The two scoring paths side by side: the Config Store is edited any      *)
(* number of times, then one row is scored by the live path and by the     *)
(* backtest path                                                           *)
(***************************************************************************)
ScoreInit == Init /\ disk = MissingFile

UpdateConfig ==
    /\ ~scored.done
    /\ \E new_values \in ConfigEdits : current' = update_dict(current, new_values)
    /\ UNCHANGED <<ledger_vars, scored, replay_vars, optimizer_vars, service_vars>>

\* the live path scores with the constants it imported, run_backtest with
\* config_editor.get_dict(), which is the store itself
ScoreRow ==
    /\ ~scored.done
    /\ \E row \in Rows, prev_row \in PrevRows :
         scored' = [done |-> TRUE, row |-> row, prev_row |-> prev_row,
                    config |-> current,
                    live |-> recommendation(row, prev_row, imported_constants),
                    bt |-> _compute_signal_row(shift1(row, prev_row), current)]
    /\ UNCHANGED <<ledger_vars, current, replay_vars, optimizer_vars, service_vars>>

ScoreNext == UpdateConfig \/ ScoreRow

ScoreSpec == ScoreInit /\ [][ScoreNext]_vars

(***************************************************************************)
(* The genetic optimizer: optimizer.run_optimizer and the state file it    *)
(* loads and extends.  The population, its variation and the backtests     *)
(* that score it are the environment: each generation hands the hall of    *)
(* fame the best fitness evaluated in it.                                  *)
(***************************************************************************)
MaxRuns == 2
MaxGenerations == 2

N_TICKERS == 3

\* what run_backtest returns for one sampled ticker: None (<<>>) when there
\* is no data, else the result dict
BacktestOutcomes ==
    {<<>>, <<[profit_pct |-> 0, trades |-> 0]>>, <<[profit_pct |-> 1, trades |-> 3]>>}

SampledResults == [1..N_TICKERS -> BacktestOutcomes]

RECURSIVE total(_, _)
total(results, field) ==
    IF results = <<>> THEN 0 ELSE results[1][1][field] + total(Tail(results), field)

\* lines 58-82: <<>> when result.get raises AttributeError on a None result,
\* else the fitness (score, avg_trades, avg_profit)
evaluate(results) ==
    IF \E k \in 1..Len(results) : results[k] = <<>>
    THEN <<>>
    ELSE <<[score |-> total(results, "profit_pct"),
            trades |-> total(results, "trades") \div N_TICKERS,
            profit_pct |-> total(results, "profit_pct") \div N_TICKERS]>>

\* the fitness values an evaluation can return
Fitnesses == {evaluate(results)[1] : results \in {r \in SampledResults : evaluate(r) # <<>>}}

\* a state file that is not a JSON document
MalformedOptimizerFile == <<[text |-> "{"]>>

OptimizerStartFiles == {<<>>, MalformedOptimizerFile}

\* line 34: json.load raises JSONDecodeError
json_load_raises(file) == file = MalformedOptimizerFile

EmptyOptimizerState == [best |-> <<>>, history |-> <<>>]

\* lines 31-35
load_state(file) ==
    IF file # <<>> THEN file[1] ELSE EmptyOptimizerState

\* lines 37-39
save_state(state) == <<state>>

\* FitnessMax, weights all positive: fitness values compare as tuples
fitness_gt(a, b) ==
    a.score > b.score \/ (a.score = b.score /\ a.trades > b.trades)

\* HallOfFame(1).update with the best individual evaluated in a generation
halloffame_update(hof, fitness) ==
    IF hof = <<>> \/ fitness_gt(fitness, hof[1]) THEN <<fitness>> ELSE hof

\* lines 113-119; the generation is counted from 1
history_entry_zero_based(gen, best_ind) ==
    [gen |-> gen - 1, score |-> best_ind.score, trades |-> best_ind.trades,
     profit_pct |-> best_ind.profit_pct]

history_entry(gen, best_ind) ==
    [gen |-> gen, score |-> best_ind.score, trades |-> best_ind.trades,
     profit_pct |-> best_ind.profit_pct]

\* lines 120-126; "best" is <<>> for None
best_after_latest(state, best_ind) ==
    <<[score |-> best_ind.score, trades |-> best_ind.trades,
       profit_pct |-> best_ind.profit_pct]>>

best_after(state, best_ind) ==
    IF state.best = <<>> \/ best_ind.score > state.best[1].score
    THEN <<[score |-> best_ind.score, trades |-> best_ind.trades,
            profit_pct |-> best_ind.profit_pct]>>
    ELSE state.best

\* lines 98-105; the exception of load_state leaves run_optimizer
optimizer_start(opt, file, n_generations) ==
    IF json_load_raises(file)
    THEN [pc |-> "raised", gen |-> 0, n_generations |-> n_generations,
          state |-> <<>>, hof |-> <<>>, runs |-> opt.runs + 1, result |-> <<>>,
          loaded_from |-> file, error |-> "JSONDecodeError",
          progress |-> opt.progress]
    ELSE [pc |-> "loop", gen |-> 0, n_generations |-> n_generations,
          state |-> load_state(file), hof |-> <<>>, runs |-> opt.runs + 1,
          result |-> <<>>, loaded_from |-> file, error |-> "",
          progress |-> opt.progress]

\* lines 106-128: one pass of the loop
optimizer_generation(opt, fitness) ==
    LET hof == halloffame_update(opt.hof, fitness)
        best_ind == hof[1]
        state == [best |-> best_after(opt.state, best_ind),
                  history |-> Append(opt.state.history,
                                     history_entry(opt.gen + 1, best_ind))]
    IN  [opt EXCEPT !.gen = opt.gen + 1, !.hof = hof, !.state = state]

OptimizerStart ==
    /\ optimizer.pc # "loop"
    /\ optimizer.runs < MaxRuns
    /\ \E n_generations \in 0..MaxGenerations :
          optimizer' = optimizer_start(optimizer, optimizer_state_file, n_generations)
    /\ UNCHANGED <<ledger_vars, score_vars, replay_vars, service_vars, optimizer_state_file>>

OptimizerGeneration ==
    /\ optimizer.pc = "loop"
    /\ optimizer.gen < optimizer.n_generations
    /\ \E results \in SampledResults :
          /\ evaluate(results) # <<>>
          /\ optimizer' = optimizer_generation(optimizer, evaluate(results)[1])
          /\ optimizer_state_file' = save_state(optimizer'.state)
    /\ UNCHANGED <<ledger_vars, score_vars, replay_vars, service_vars>>

\* evaluate, lines 65-73: run_backtest returns None and result.get raises
OptimizerRaise ==
    /\ optimizer.pc = "loop"
    /\ optimizer.gen < optimizer.n_generations
    /\ \E results \in SampledResults :
          /\ evaluate(results) = <<>>
          /\ optimizer' = [optimizer EXCEPT !.pc = "raised", !.error = "AttributeError"]
    /\ UNCHANGED <<ledger_vars, score_vars, replay_vars, service_vars, optimizer_state_file>>

\* lines 129-130
OptimizerFinish ==
    /\ optimizer.pc = "loop"
    /\ optimizer.gen = optimizer.n_generations
    /\ optimizer' = [optimizer EXCEPT !.pc = "done", !.result = optimizer.state.best]
    /\ UNCHANGED <<ledger_vars, score_vars, replay_vars, service_vars, optimizer_state_file>>

\* reset_optimizer_state, lines 146-148
ResetOptimizerState ==
    /\ optimizer_state_file # <<>>
    /\ optimizer_state_file' = <<>>
    /\ UNCHANGED <<ledger_vars, score_vars, replay_vars, service_vars, optimizer>>

OptimizerInit ==
    /\ LedgerInit /\ disk \in {MissingFile, MalformedFile}
    /\ ScoreIdle
    /\ ReplayIdle
    /\ optimizer_state_file \in OptimizerStartFiles
    /\ optimizer = NotOptimizing
    /\ ServiceIdle

OptimizerNext ==
    \/ OptimizerStart
    \/ OptimizerGeneration
    \/ OptimizerRaise
    \/ OptimizerFinish
    \/ ResetOptimizerState

OptimizerSpec == OptimizerInit /\ [][OptimizerNext]_vars

(***************************************************************************)
(* The optimizer's process and its progress.  The process can exit at any  *)
(* point of a run; save_state opens the file for writing, which empties    *)
(* it, and then dumps the document into it (lines 38-39).  The progress    *)
(* panel polls get_optimizer_progress (callbacks.py:402-404).              *)
(***************************************************************************)
MaxSessions == 1

\* the file when the process exits inside save_state: emptied by open, or
\* holding the part of the document json.dump had written
interrupted_save(state) == MalformedOptimizerFile

\* history[-10:], line 142
RECENT == 10

last_records(history, n) ==
    IF Len(history) <= n THEN history
    ELSE SubSeq(history, Len(history) - n + 1, Len(history))

Raised(error) ==
    [raised |-> TRUE, error |-> error, iterations |-> 0, best_score |-> <<>>,
     history |-> <<>>]

\* lines 132-144: state.get("best", {}) is None when the key holds None, as
\* in the state load_state makes up without a file, and None has no get
get_optimizer_progress(file) ==
    IF json_load_raises(file) THEN Raised("JSONDecodeError")
    ELSE LET state == load_state(file)
         IN  IF state.best = <<>> THEN Raised("AttributeError")
             ELSE [raised |-> FALSE, error |-> "",
                   iterations |-> Len(state.history),
                   best_score |-> <<state.best[1].score>>,
                   history |-> last_records(state.history, RECENT)]

\* the process exits between two generations, or while one is evaluated
OptimizerExit ==
    /\ optimizer.pc = "loop"
    /\ optimizer' = [optimizer EXCEPT !.pc = "exited"]
    /\ UNCHANGED <<ledger_vars, score_vars, replay_vars, service_vars, optimizer_state_file>>

\* the process exits inside the save_state of line 128
OptimizerExitInSave ==
    /\ optimizer.pc = "loop"
    /\ optimizer.gen < optimizer.n_generations
    /\ \E results \in SampledResults :
          /\ evaluate(results) # <<>>
          /\ optimizer' =
                [optimizer_generation(optimizer, evaluate(results)[1])
                    EXCEPT !.pc = "exited", !.gen = optimizer.gen]
          /\ optimizer_state_file' = interrupted_save(optimizer'.state)
    /\ UNCHANGED <<ledger_vars, score_vars, replay_vars, service_vars>>

\* optimizer_actions, lines 402-404
PollProgress ==
    /\ optimizer.pc # "loop"
    /\ optimizer' =
          [optimizer EXCEPT !.progress = <<get_optimizer_progress(optimizer_state_file)>>]
    /\ UNCHANGED <<ledger_vars, score_vars, replay_vars, service_vars, optimizer_state_file>>

\* the processes started one after another
SessionStart == optimizer.runs < MaxSessions /\ OptimizerStart

SessionNext ==
    \/ SessionStart
    \/ OptimizerGeneration
    \/ OptimizerRaise
    \/ OptimizerFinish
    \/ ResetOptimizerState
    \/ OptimizerExit
    \/ OptimizerExitInSave
    \/ PollProgress

SessionSpec == OptimizerInit /\ [][SessionNext]_vars

(***************************************************************************)
(* The population of run_optimizer: how toolbox.population draws its       *)
(* individuals and how one call of eaSimple varies them.  Two individuals  *)
(* and two of the thirteen genes are followed: the first key of            *)
(* CONFIG_RANGES and the last.  Values are tenths.  random.uniform gives   *)
(* one of its two ends; cxBlend draws gamma from -1/2, 1/2, 3/2; a         *)
(* generation mutates at most one gene, by one sigma (0.2).                *)
(***************************************************************************)
MaxVariations == 1

pop_size == 2

CONFIG_KEYS == <<"COEF_BOLLINGER", "VOLUME_SMA_MULTIPLIER">>

\* lines 15-29
CONFIG_RANGES ==
    [COEF_BOLLINGER |-> <<5, 20>>, VOLUME_SMA_MULTIPLIER |-> <<10, 30>>]

\* line 45: random.uniform(low, high)
attr_float(low, high) == {low, high}

\* lines 91-97 (and 46-52): "lambda: toolbox.attr_float(*ranges[k]) for k
\* in ranges" reads k when the lambda is called, after the comprehension has
\* ended, so every gene is drawn from the range of the last key
individual(ranges, keys) ==
    LET k == keys[Len(keys)]
    IN  [1..Len(keys) -> attr_float(ranges[k][1], ranges[k][2])]

\* line 99
toolbox_population(n, ranges, keys) == [1..n -> individual(ranges, keys)]

\* tools.cxBlend, alpha = 0.5: gamma = (1 + 2 alpha) random() - alpha, here
\* twice gamma
Gammas == {-1, 1, 3}

blend(x1, x2, gamma2) == ((2 - gamma2) * x1 + gamma2 * x2) \div 2

\* line 54
cxBlend(ind1, ind2, gammas) ==
    << [i \in 1..Len(ind1) |-> blend(ind1[i], ind2[i], gammas[i])],
       [i \in 1..Len(ind1) |-> blend(ind2[i], ind1[i], gammas[i])] >>

\* line 55: tools.mutGaussian, mu = 0, sigma = 0.2
Gauss == {-2, 2}

mutGaussian(ind, i, delta) == [ind EXCEPT ![i] = ind[i] + delta]

\* line 108: eaSimple, ngen = 1: tournament selection clones two members,
\* varAnd mates them (cxpb) and mutates (mutpb); the offspring replace pop
Offspring(pop) ==
    LET selected == {<<pop[a], pop[b]>> : a \in 1..Len(pop), b \in 1..Len(pop)}
        mated == selected \cup
                 {cxBlend(pair[1], pair[2], gammas) :
                    pair \in selected, gammas \in [1..Len(CONFIG_KEYS) -> Gammas]}
        mutated == mated \cup
                   {[pair EXCEPT ![n] = mutGaussian(pair[n], i, delta)] :
                      pair \in mated, n \in 1..2, i \in 1..Len(CONFIG_KEYS),
                      delta \in Gauss}
    IN  mutated

CreatePopulation ==
    /\ population.pc = "idle"
    /\ \E pop \in toolbox_population(pop_size, CONFIG_RANGES, CONFIG_KEYS) :
          population' = [pc |-> "created", gen |-> 0, pop |-> pop]
    /\ UNCHANGED <<ledger_vars, score_vars, replay_vars, optimizer_vars, requests,
                   store_vars>>

VaryPopulation ==
    /\ population.pc = "created"
    /\ population.gen < MaxVariations
    /\ \E pop \in Offspring(population.pop) :
          population' = [population EXCEPT !.gen = population.gen + 1, !.pop = pop]
    /\ UNCHANGED <<ledger_vars, score_vars, replay_vars, optimizer_vars, requests,
                   store_vars>>

GeneInit == Init /\ disk = MissingFile

GeneNext == CreatePopulation \/ VaryPopulation

GeneSpec == GeneInit /\ [][GeneNext]_vars

(***************************************************************************)
(* Run requests: the callbacks that start a backtest or an optimizer run.  *)
(* A click is sent to the server as one request per callback that has the  *)
(* button as Input; the server (app.run) handles each request in a thread  *)
(* of its own.                                                             *)
(***************************************************************************)
MaxClicks == 2

\* the callbacks whose Input is bt-run (callbacks.py lines 272 and 320)
BT_RUN_CALLBACKS == <<"run_and_display_backtest", "cache_backtest_result">>

Request(callback, click, trigger, form_filled) ==
    [callback |-> callback, click |-> click, trigger |-> trigger,
     form_filled |-> form_filled, pc |-> "sent"]

\* lines 280-284 and 328-331: with the form filled the callback calls
\* run_backtest; lines 388-401: the start button calls run_optimizer
starts_run(call) ==
    IF call.callback = "optimizer_actions"
    THEN call.trigger = "optimizer-start-btn"
    ELSE call.form_filled

ClickRunBacktest ==
    /\ requests.clicks < MaxClicks
    /\ \E form_filled \in BOOLEAN :
          requests' =
            [requests EXCEPT
               !.clicks = requests.clicks + 1,
               !.calls = requests.calls \o
                   [n \in 1..Len(BT_RUN_CALLBACKS) |->
                       Request(BT_RUN_CALLBACKS[n], requests.clicks + 1, "bt-run",
                               form_filled)]]
    /\ UNCHANGED <<ledger_vars, score_vars, replay_vars, optimizer_vars, population,
                   store_vars>>

ClickOptimizer ==
    /\ requests.clicks < MaxClicks
    /\ \E trigger \in {"optimizer-start-btn", "optimizer-apply-btn", "optimizer-reset-btn"} :
          requests' =
            [requests EXCEPT
               !.clicks = requests.clicks + 1,
               !.calls = Append(requests.calls,
                                Request("optimizer_actions", requests.clicks + 1,
                                        trigger, TRUE))]
    /\ UNCHANGED <<ledger_vars, score_vars, replay_vars, optimizer_vars, population,
                   store_vars>>

\* the server takes up a request: the callback runs to its call of
\* run_backtest or run_optimizer, or returns at once
CallbackBegins ==
    /\ \E i \in 1..Len(requests.calls) :
          /\ requests.calls[i].pc = "sent"
          /\ requests' =
                [requests EXCEPT
                   !.calls[i].pc = IF starts_run(requests.calls[i])
                                   THEN "running" ELSE "returned_without_run"]
    /\ UNCHANGED <<ledger_vars, score_vars, replay_vars, optimizer_vars, population,
                   store_vars>>

\* the run ends and the callback returns; line 314: lock_flag is False
CallbackReturns ==
    /\ \E i \in 1..Len(requests.calls) :
          /\ requests.calls[i].pc = "running"
          /\ requests' =
                [requests EXCEPT
                   !.calls[i].pc = "returned",
                   !.bt_lock = IF requests.calls[i].callback = "run_and_display_backtest"
                               THEN FALSE ELSE requests.bt_lock]
    /\ UNCHANGED <<ledger_vars, score_vars, replay_vars, optimizer_vars, population,
                   store_vars>>

RequestInit == Init /\ disk = MissingFile

RequestNext == ClickRunBacktest \/ ClickOptimizer \/ CallbackBegins \/ CallbackReturns

RequestSpec == RequestInit /\ [][RequestNext]_vars

(***************************************************************************)
(* The Config Store and config.py: config_editor's update_dict,            *)
(* persist_config and reset_to_original, called one after another, and the *)
(* Apply handler save_config (callbacks.py:339-357), which is update_dict  *)
(* and then persist_config.  The clock is the environment: a persist falls *)
(* in the second of the persist before it or in a later one.               *)
(***************************************************************************)
MaxEdits == 3

\* what update_dict can be sent: a number field gives an int for a whole
\* number and a float otherwise (save_config lines 343-354); a key may be
\* one the store does not have
StoreEdits ==
    {[values |-> [COEF_RSI |-> 150], types |-> [COEF_RSI |-> "float"]],
     [values |-> [COEF_RSI |-> 250], types |-> [COEF_RSI |-> "float"]],
     [values |-> [COEF_RSI |-> 100], types |-> [COEF_RSI |-> "float"]],
     [values |-> [COEF_VOLUME |-> 200], types |-> [COEF_VOLUME |-> "int"]],
     [values |-> [COEF_VOLUME |-> 100], types |-> [COEF_VOLUME |-> "int"]],
     [values |-> [COEF_VOLUME |-> 100], types |-> [COEF_VOLUME |-> "float"]],
     [values |-> [NOT_A_KEY |-> 100], types |-> [NOT_A_KEY |-> "int"]],
     [values |-> [COEF_RSI |-> 150, NOT_A_KEY |-> 100],
      types |-> [COEF_RSI |-> "float", NOT_A_KEY |-> "int"]]}

\* the seconds a persist can fall in, after a file written in second mtime;
\* the config.py of the repository was written before the process started
WriteSeconds(mtime) == {mtime + 1} \cup (IF mtime > 0 THEN {mtime} ELSE {})

\* history: the call, the store before it, and the hash of the store after it
StoreCalled(op, edit, cur, types) ==
    [op |-> op, n |-> store_log.n + 1, edit |-> edit, before |-> current,
     before_types |-> current_types,
     seen |-> store_log.seen \cup
                {[config |-> cur, hash |-> _hash_config(cur, types)]}]

StoreUpdate ==
    /\ store_log.n < MaxEdits
    /\ \E edit \in StoreEdits :
          /\ current' = update_dict(current, edit.values)
          /\ current_types' = update_dict(current_types, edit.types)
          /\ store_log' = StoreCalled("update", <<edit>>, current', current_types')
    /\ UNCHANGED <<ledger_vars, scored, replay_vars, optimizer_vars, population,
                   requests, config_file, config_module>>

\* lines 71-91: reload, write, reload
StorePersist ==
    /\ store_log.n < MaxEdits
    /\ \E mtime \in WriteSeconds(config_file.mtime) :
          /\ config_file' = persist_config(current, current_types, mtime)
          /\ config_module' =
                importlib_reload(importlib_reload(config_module, config_file),
                                 config_file')
    /\ store_log' = StoreCalled("persist", <<>>, current, current_types)
    /\ UNCHANGED <<ledger_vars, score_vars, replay_vars, optimizer_vars, population,
                   requests, current_types>>

\* callbacks.save_config, lines 355-356
SaveConfig ==
    /\ store_log.n < MaxEdits
    /\ \E edit \in StoreEdits, mtime \in WriteSeconds(config_file.mtime) :
          /\ current' = update_dict(current, edit.values)
          /\ current_types' = update_dict(current_types, edit.types)
          /\ config_file' = persist_config(current', current_types', mtime)
          /\ config_module' =
                importlib_reload(importlib_reload(config_module, config_file),
                                 config_file')
          /\ store_log' = StoreCalled("save", <<edit>>, current', current_types')
    /\ UNCHANGED <<ledger_vars, scored, replay_vars, optimizer_vars, population,
                   requests>>

\* config_editor.reset_to_original, called by callbacks.reset_config
StoreReset ==
    /\ store_log.n < MaxEdits
    /\ config_module' = importlib_reload(config_module, config_file)
    /\ current' = reset_to_original(current, config_module'.values)
    /\ current_types' = reset_to_original(current_types, config_module'.types)
    /\ store_log' = StoreCalled("reset", <<>>, current', current_types')
    /\ UNCHANGED <<ledger_vars, scored, replay_vars, optimizer_vars, population,
                   requests, config_file>>

StoreInit == Init /\ disk = MissingFile

StoreNext == StoreUpdate \/ StorePersist \/ SaveConfig \/ StoreReset

StoreSpec == StoreInit /\ [][StoreNext]_vars

(***************************************************************************)
(* run_backtest beside the Config Store.  The server is threaded, so       *)
(* update_dict and reset_to_original can run between any two steps of a    *)
(* run: between line 27, where the run takes its config, and line 43,      *)
(* where df.apply scores the rows one after another, and between two rows. *)
(* A run called by a callback is given no config and takes get_dict(),     *)
(* the store itself; evaluate (optimizer.py:59-71) passes a dict of its    *)
(* own.                                                                    *)
(***************************************************************************)
\* the frames of a run: one or two bars, of no signal or of a low RSI
ScoredFrames ==
    {df \in Frames : Len(df) \in 1..2 /\ \A k \in 1..Len(df) : df[k] \in {QuietBar, LowBar}}

\* the dict evaluate builds from an individual
EvaluateConfigs == {ExampleConfig}

\* line 43: the config a row is scored with is the dict the run holds: the
\* store as it is now when none was passed
held_config(run, store) ==
    IF run.config_arg = <<>> THEN store ELSE run.config_arg[1]

\* lines 25-27
RunBacktestStart ==
    /\ scoring.pc = "idle"
    /\ \E df \in ScoredFrames, config_arg \in {<<>>} \cup {<<c>> : c \in EvaluateConfigs} :
          scoring' = [pc |-> "scoring", config_arg |-> config_arg,
                      started_with |-> IF config_arg = <<>> THEN current
                                       ELSE config_arg[1],
                      df |-> df, rec |-> <<>>]
    /\ UNCHANGED <<ledger_vars, score_vars, optimizer_vars, service_vars, feed, sim,
                   engine>>

\* line 43: df.apply scores the next row
RunBacktestRow ==
    /\ scoring.pc = "scoring"
    /\ Len(scoring.rec) < Len(scoring.df)
    /\ LET k == Len(scoring.rec) + 1
           row == shift1(scoring.df[k],
                         IF k = 1 THEN <<>> ELSE <<scoring.df[k - 1]>>)
       IN  scoring' =
             [scoring EXCEPT
                !.rec = Append(scoring.rec,
                               _compute_signal_row(row, held_config(scoring, current)).rec)]
    /\ UNCHANGED <<ledger_vars, score_vars, optimizer_vars, service_vars, feed, sim,
                   engine>>

\* the rec column is complete
RunBacktestScored ==
    /\ scoring.pc = "scoring"
    /\ Len(scoring.rec) = Len(scoring.df)
    /\ scoring' = [scoring EXCEPT !.pc = "scored"]
    /\ UNCHANGED <<ledger_vars, score_vars, optimizer_vars, service_vars, feed, sim,
                   engine>>

EditInit == Init /\ disk = MissingFile

EditNext ==
    \/ RunBacktestStart \/ RunBacktestRow \/ RunBacktestScored
    \/ StoreUpdate \/ StoreReset

EditSpec == EditInit /\ [][EditNext]_vars
(***************************************************************************)
(* Properties of the ledger                                                *)
(***************************************************************************)
Held(pf, t) == t \in DOMAIN pf.stocks
HeldQty(pf, t) == IF Held(pf, t) THEN pf.stocks[t].qty ELSE 0
IsBuy(c) == c.op = "buy"
IsSell(c) == c.op = "sell"
Executed(c) == c.color = "success"
Rejected(c) == c.color = "danger"

\* C1: with positive quantities and prices and a start with cash >= 0, cash
\* is never negative after any sequence of buy, sell and reset.
C1_CashNeverNegative == portfolio.cash >= 0

\* a buy went through and left less cash than the same buy costs
C1_Witness ==
    /\ IsBuy(last) /\ Executed(last)
    /\ portfolio.cash < last.quantity * last.price

\* C2: a buy whose cost quantity * price exceeds the cash is rejected and
\* leaves cash, positions, closed_trades and the file as they were.
C2_RejectedBuyChangesNothing ==
    (IsBuy(last) /\ last.quantity * last.price > last.before.cash)
        => /\ Rejected(last)
           /\ portfolio = last.before
           /\ disk = last.disk_before

C2_Witness ==
    /\ IsBuy(last)
    /\ last.quantity * last.price > last.before.cash
    /\ last.before.cash > 0

\* C3: a sell of a ticker that is not held, or of more shares than are held,
\* is rejected with realized_pnl 0 and changes nothing; an executed sell
\* never takes more shares than were held.
C3_RejectedSellChangesNothing ==
    /\ (IsSell(last) /\ HeldQty(last.before, last.ticker) < last.quantity)
          => /\ Rejected(last)
             /\ last.realized_pnl = FracOfInt(0)
             /\ portfolio = last.before
    /\ (IsSell(last) /\ Executed(last))
          => /\ Held(last.before, last.ticker)
             /\ last.quantity <= last.before.stocks[last.ticker].qty

\* the ticker was held, but in a smaller quantity than the sell asked for
C3_Witness ==
    /\ IsSell(last)
    /\ Held(last.before, last.ticker)
    /\ last.before.stocks[last.ticker].qty < last.quantity

\* C4: buy and sell themselves reject a non-positive quantity or price and
\* change neither cash, positions nor closed_trades.
C4_LedgerRejectsNonPositiveInput ==
    ((IsBuy(last) \/ IsSell(last)) /\ (last.quantity <= 0 \/ last.price <= 0))
        => /\ ~Executed(last)
           /\ portfolio = last.before

\* C5: every stored position has an integer quantity > 0; a sell that takes
\* the whole position removes it in the same operation.
C5_PositionsArePositive ==
    /\ \A t \in DOMAIN portfolio.stocks :
          portfolio.stocks[t].qty \in Nat /\ portfolio.stocks[t].qty > 0
    /\ (IsSell(last) /\ Executed(last)
            /\ last.before.stocks[last.ticker].qty = last.quantity)
          => ~Held(portfolio, last.ticker)

\* a sell has just taken a whole position
C5_Witness ==
    /\ IsSell(last) /\ Executed(last)
    /\ last.before.stocks[last.ticker].qty = last.quantity

\* C6: after successful buys of one ticker from no position, avg_price is
\* sum(quantity * price) / sum(quantity), and buying in any other order
\* gives the same avg_price.
RECURSIVE SumCost(_)
SumCost(log) ==
    IF log = <<>> THEN 0 ELSE log[1][1] * log[1][2] + SumCost(Tail(log))

RECURSIVE SumQty(_)
SumQty(log) == IF log = <<>> THEN 0 ELSE log[1][1] + SumQty(Tail(log))

\* the position left by the buys of log (non-empty), made in that order
RECURSIVE BuyAll(_)
BuyAll(log) ==
    IF Len(log) = 1
    THEN [qty |-> log[1][1], avg_price |-> FracOfInt(log[1][2])]
    ELSE LET old == BuyAll(SubSeq(log, 1, Len(log) - 1))
             b == log[Len(log)]
         IN  [qty |-> old.qty + b[1], avg_price |-> merged_avg_price(old, b[1], b[2])]

Reordered(log, f) == [i \in 1..Len(log) |-> log[f[i]]]

C6_AveragePriceIsWeightedMean ==
    \A t \in Tickers :
        buy_log[t] # <<>> =>
            /\ Held(portfolio, t)
            /\ portfolio.stocks[t].qty = SumQty(buy_log[t])
            /\ portfolio.stocks[t].avg_price.num * SumQty(buy_log[t])
                  = SumCost(buy_log[t]) * portfolio.stocks[t].avg_price.den
            /\ \A f \in Permutations(1..Len(buy_log[t])) :
                  BuyAll(Reordered(buy_log[t], f)).avg_price = portfolio.stocks[t].avg_price

\* three buys of one ticker, not all of the same quantity nor the same price
C6_Witness ==
    \E t \in Tickers :
        /\ Len(buy_log[t]) = 3
        /\ buy_log[t][1][1] # buy_log[t][2][1]
        /\ buy_log[t][2][2] # buy_log[t][3][2]

\* C7: buy(t, q, p) immediately followed by sell(t, q, p)
BuyThenSell ==
    /\ IsBuy(prev) /\ Executed(prev)
    /\ IsSell(last)
    /\ last.ticker = prev.ticker
    /\ last.quantity = prev.quantity
    /\ last.price = prev.price

BoughtAtOwnPrice ==
    \/ ~Held(prev.before, prev.ticker)
    \/ prev.before.stocks[prev.ticker].avg_price = FracOfInt(prev.price)

\* C7 as stated: from any state where the buy succeeds, buy then sell of the
\* same quantity at the same price leaves cash as before the buy and the
\* sell's realized_pnl is 0.
C7_BuySellRoundTrip_Original ==
    BuyThenSell =>
        /\ portfolio.cash = prev.before.cash
        /\ last.realized_pnl = FracOfInt(0)

\* C7 amended: the cash is as before the buy in every case; realized_pnl is
\* 0 exactly when the ticker was not held before the buy or was held at an
\* average price equal to the trade price.
C7_BuySellRoundTrip ==
    BuyThenSell =>
        /\ Executed(last)
        /\ portfolio.cash = prev.before.cash
        /\ (last.realized_pnl = FracOfInt(0)) <=> BoughtAtOwnPrice

C7_Witness ==
    /\ BuyThenSell
    /\ ~Held(prev.before, prev.ticker)
    /\ prev.before.stocks # NoStocks

\* C8: an executed sell of q shares at p returns (p - avg_price) * q with the
\* avg_price from before the sale, credits cash by q * p, appends one
\* ClosedTrade, lowers the held quantity by q and keeps the avg_price of the
\* shares that remain.
C8_SellEffect ==
    (IsSell(last) /\ Executed(last)) =>
        LET b == last.before
            t == last.ticker
            q == last.quantity
            p == last.price
            a == b.stocks[t].avg_price
        IN  /\ last.realized_pnl = Frac(p * q * a.den - q * a.num, a.den)
            /\ portfolio.cash = b.cash + q * p
            /\ Len(portfolio.closed_trades) = Len(b.closed_trades) + 1
            /\ SubSeq(portfolio.closed_trades, 1, Len(b.closed_trades)) = b.closed_trades
            /\ portfolio.closed_trades[Len(portfolio.closed_trades)].Ticker = t
            /\ HeldQty(portfolio, t) = b.stocks[t].qty - q
            /\ Held(portfolio, t) => portfolio.stocks[t].avg_price = a
            /\ \A u \in Tickers \ {t} :
                  /\ Held(portfolio, u) <=> Held(b, u)
                  /\ Held(b, u) => portfolio.stocks[u] = b.stocks[u]

\* a sell at a price other than the average left part of the position
C8_Witness ==
    /\ IsSell(last) /\ Executed(last)
    /\ Held(portfolio, last.ticker)
    /\ last.before.stocks[last.ticker].avg_price # FracOfInt(last.price)

\* C9: from cash 100000 and no positions, buy(AAPL,10,150); buy(AAPL,10,170);
\* sell(AAPL,15,180) give cash 98500 and 10 @ 150; cash 96800 and avg 160;
\* realized_pnl 300, cash 99500 and 5 @ 160.
C9_WorkedScenario ==
    /\ scen = 1 =>
          /\ portfolio.cash = 98500
          /\ Held(portfolio, "AAPL")
          /\ portfolio.stocks["AAPL"] = [qty |-> 10, avg_price |-> FracOfInt(150)]
    /\ scen = 2 =>
          /\ portfolio.cash = 96800
          /\ Held(portfolio, "AAPL")
          /\ portfolio.stocks["AAPL"].avg_price = FracOfInt(160)
    /\ scen = 3 =>
          /\ last.realized_pnl = FracOfInt(300)
          /\ portfolio.cash = 99500
          /\ Held(portfolio, "AAPL")
          /\ portfolio.stocks["AAPL"] = [qty |-> 5, avg_price |-> FracOfInt(160)]

C9_Witness == scen = 3 /\ Executed(last)

\* C10: reset() sets cash to the portfolio's own initial_cash, also for a
\* portfolio loaded from disk with another initial_cash than the default,
\* and empties positions and closed_trades.
C10_ResetRestoresInitialCash ==
    last.op = "reset" =>
        /\ portfolio.cash = last.before.initial_cash
        /\ portfolio.stocks = NoStocks
        /\ portfolio.closed_trades = NoTrades

(***************************************************************************)
(* Properties of the scoring                                               *)
(***************************************************************************)
\* C14: for every row, row before and configuration, the live scoring path
\* and the backtest scoring path return the same Signal, also after the
\* Config Store has been changed by update_dict
C14_LiveAndBacktestScoreAlike ==
    scored.done => SignalOf(scored.live.rec) = SignalOf(scored.bt.rec)

\* C16: the decision maps the accumulated scores to Buy iff buy_score >
\* sell_score + margin, otherwise Sell iff sell_score > buy_score + margin,
\* otherwise Observe iff one of the scores is positive, otherwise Hold; with
\* every coefficient 0 except COEF_RSI = 2, RSI_OVERSOLD = 30 and margin 1, a
\* row with RSI = 25 scores Buy
C16_ScoreDecision ==
    scored.done =>
      LET b == scored.bt.buy_score
          s == scored.bt.sell_score
          margin == scored.config.BUY_SELL_THRESHOLD
          signal == SignalOf(scored.bt.rec)
          buys == b > s + margin
          sells == ~buys /\ s > b + margin
          observes == ~buys /\ ~sells /\ (b > 0 \/ s > 0)
      IN  /\ signal \in {"Buy", "Sell", "Observe", "Hold"}
          /\ (signal = "Buy") <=> buys
          /\ (signal = "Sell") <=> sells
          /\ (signal = "Observe") <=> observes
          /\ (signal = "Hold") <=> (~buys /\ ~sells /\ ~observes)
          /\ (/\ scored.config = update_dict(original_config, ExampleConfig)
              /\ scored.row.RSI = <<25>>)
             => (b = 200 /\ s = 0 /\ signal = "Buy")

C16_Witness ==
    /\ scored.done
    /\ scored.config = update_dict(original_config, ExampleConfig)
    /\ scored.row.RSI = <<25>>
    /\ scored.row.ADX = <<30>>
    /\ SignalOf(scored.bt.rec) = "Buy"

\* C17: a rule one of whose fields is undefined adds to neither score: the
\* ADX rule adds nothing when ADX is above its threshold and SMA20 or Close
\* is undefined, the MACD and volume rules add nothing when the values of
\* the row before are undefined; on the backtest path and on the live path
C17_UndefinedFieldSkipsRule ==
    scored.done =>
      LET row == shift1(scored.row, scored.prev_row)
      IN  \A c \in {scored.bt.contrib, scored.live.contrib} :
            /\ (row.Close = NaN \/ row.Lower = NaN) => c.bollinger.buy = 0
            /\ (row.Close = NaN \/ row.Upper = NaN) => c.bollinger.sell = 0
            /\ (row.RSI = NaN) => c.rsi = NoScore
            /\ (NaN \in {row.MACD, row.Signal, row.prev_MACD, row.prev_Signal})
                  => c.macd = NoScore
            /\ (NaN \in {row.Stoch_K, row.Stoch_D}) => c.stoch = NoScore
            /\ (NaN \in {row.ADX, row.SMA20, row.Close}) => c.adx = NoScore
            /\ (NaN \in {row.Volume, row.Volume_SMA, row.Close, row.prev_Close})
                  => c.volume = NoScore

(***************************************************************************)
(* Properties of the automation                                            *)
(***************************************************************************)
\* the evaluations of one ticker, in order
EvalsOf(log, t) == SelectSeq(log, LAMBDA e : e.ticker = t)

\* s[j..k] are consecutive Buy evaluations, and the one before them, if any,
\* was not a Buy evaluation
BuyRun(s, j, k) ==
    /\ \A n \in j..k : s[n].rec = BUY_SIGNAL
    /\ j = 1 \/ s[j - 1].rec # BUY_SIGNAL

Executed_in(s, j, k) ==
    Cardinality({n \in j..k : s[n].fired /\ s[n].color = "success"})

OneBuyPerRun_Original(s) ==
    \A j \in 1..Len(s) : \A k \in j..Len(s) :
        (BuyRun(s, j, k) /\ s[j].covered) => Executed_in(s, j, k) = 1

OneBuyPerRun(s) ==
    \A j \in 1..Len(s) : \A k \in j..Len(s) :
        (BuyRun(s, j, k) /\ s[j].covered) =>
            Executed_in(s, j, k) = (IF s[j].recorded_before # BUY_SIGNAL THEN 1 ELSE 0)

\* C11 as stated: when the signal of a ticker is Buy on N >= 1 consecutive
\* automated evaluations and cash covers the first purchase, exactly one
\* automated buy is executed for the ticker over those evaluations, in the
\* live automation and in the replay loop
C11_OneBuyPerBuyRun_Original ==
    /\ \A t \in Tickers : OneBuyPerRun_Original(EvalsOf(auto_log, t))
    /\ OneBuyPerRun_Original(sim.log)

\* C11 amended: ... exactly one automated buy is executed over those
\* evaluations provided the anti-repeat state recorded for the ticker before
\* the first of them is not Buy; when it is Buy, none is executed
C11_OneBuyPerBuyRun ==
    /\ \A t \in Tickers : OneBuyPerRun(EvalsOf(auto_log, t))
    /\ OneBuyPerRun(sim.log)

C11_Witness ==
    \E t \in Tickers :
        LET s == EvalsOf(auto_log, t)
        IN  /\ Len(s) >= 3
            /\ BuyRun(s, Len(s) - 2, Len(s))
            /\ s[Len(s) - 2].covered
            /\ s[Len(s) - 2].recorded_before # BUY_SIGNAL
            /\ Executed_in(s, Len(s) - 2, Len(s)) = 1

RecordedAsSignal(s) ==
    \A n \in 1..Len(s) : s[n].recorded_after = s[n].rec

RecordedAsActedUpon(s) ==
    \A n \in 1..Len(s) :
        s[n].recorded_after =
            IF s[n].rec \in {BUY_SIGNAL, SELL_SIGNAL}
            THEN IF s[n].fired /\ s[n].color = "success"
                 THEN s[n].rec
                 ELSE s[n].recorded_before
            ELSE s[n].rec

\* C12 as stated: after every automated evaluation for a ticker the
\* anti-repeat state recorded for it equals the signal just evaluated,
\* whether or not the ledger accepted the trade, in the live automation and
\* in the replay loop
C12_RecordedStateIsSignal_Original ==
    RecordedAsSignal(auto_log) /\ RecordedAsSignal(sim.log)

\* C12 amended: a Buy or Sell evaluation records that action when the ledger
\* executed the trade and leaves the recorded state as it was when the trade
\* was rejected or blocked by the anti-repeat test; an Observe or Hold
\* evaluation records the observed signal
C12_RecordedStateIsActedUpon ==
    /\ RecordedAsActedUpon(auto_log)
    /\ \A t \in Tickers :
         LET s == EvalsOf(auto_log, t)
         IN  s # <<>> => latest_data.last_auto_trade_rec[t] = s[Len(s)].recorded_after
    /\ RecordedAsActedUpon(sim.log)
    /\ sim.log # <<>> =>
         sim.last_auto_trade_rec_for_ticker = sim.log[Len(sim.log)].recorded_after

C12_Witness ==
    /\ Len(sim.log) >= 2
    /\ LET e == sim.log[Len(sim.log)]
       IN  /\ e.rec = BUY_SIGNAL
           /\ e.fired
           /\ e.color = "danger"
           /\ e.recorded_before = HOLD_SIGNAL
           /\ e.recorded_after = HOLD_SIGNAL

\* C13: an automated evaluation whose signal is Observe or Hold, or whose
\* Buy/Sell signal equals the last automated action recorded for the ticker,
\* changes neither cash nor positions nor closed_trades
C13_IdleEvaluationChangesNothing ==
    \A n \in 1..Len(auto_log) :
        LET e == auto_log[n]
        IN  (\/ e.rec \in {OBSERVE_SIGNAL, HOLD_SIGNAL}
             \/ (e.rec \in {BUY_SIGNAL, SELL_SIGNAL} /\ e.recorded_before = e.rec))
            => (~e.fired /\ e.after = e.before)

C13_Witness ==
    /\ auto_log # <<>>
    /\ LET e == auto_log[Len(auto_log)]
       IN  /\ e.rec = BUY_SIGNAL
           /\ e.recorded_before = BUY_SIGNAL
           /\ ~e.fired
           /\ e.covered
           /\ portfolio.cash = e.before.cash

(***************************************************************************)
(* Properties of the replay                                                *)
(***************************************************************************)
\* callbacks.handle_auto_trading lines 213-247 applied bar by bar to a rec
\* column, from the default portfolio: the trades the ledger executes
RECURSIVE automation_replay(_, _, _, _)
automation_replay(st, rec, df, trade_quantity) ==
    IF st.k > Len(rec) THEN st
    ELSE
      LET signal == rec[st.k]
          price == df[st.k].Close[1]
          r == IF signal = BUY_SIGNAL
               THEN _buy_stock(st.portfolio, "AAPL", trade_quantity, price)
               ELSE _sell_stock(st.portfolio, "AAPL", trade_quantity, price)
          side == IF signal = BUY_SIGNAL THEN "buy" ELSE "sell"
          next ==
            IF signal \in {BUY_SIGNAL, SELL_SIGNAL}
            THEN IF auto_trade_due(st.recorded, signal)
                 THEN [k |-> st.k + 1, portfolio |-> r.portfolio,
                       recorded |-> auto_rec_after_trade(st.recorded, signal, r.color),
                       trades |-> IF r.color = "success"
                                  THEN Append(st.trades,
                                         [bar |-> st.k, side |-> side,
                                          size |-> <<trade_quantity>>])
                                  ELSE st.trades]
                 ELSE [st EXCEPT !.k = st.k + 1]
            ELSE [st EXCEPT !.k = st.k + 1, !.recorded = signal]
      IN  automation_replay(next, rec, df, trade_quantity)

LiveTrades(rec, df, trade_quantity) ==
    automation_replay([k |-> 1, portfolio |-> InitialPortfolioState, recorded |-> None,
                       trades |-> <<>>], rec, df, trade_quantity).trades

\* the orders of the strategy that were filled
RECURSIVE EngineTrades(_)
EngineTrades(orders) ==
    IF orders = <<>> THEN <<>>
    ELSE IF orders[1].filled
         THEN <<[bar |-> orders[1].bar, side |-> orders[1].side, size |-> orders[1].size]>>
              \o EngineTrades(Tail(orders))
         ELSE EngineTrades(Tail(orders))

\* C15: for every sequence of per-bar signals the backtest replay executes
\* the same buys and sells, at the same bars and each of trade_quantity
\* shares, as the live anti-repeat automation would on that sequence from a
\* fresh portfolio
C15_ReplayTradesAsAutomation ==
    (feed.program = "engine" /\ engine.pc = "done" /\ engine.rec # <<>>) =>
        \E trade_quantity \in Quantities :
            EngineTrades(engine.orders) = LiveTrades(engine.rec, feed.df, trade_quantity)

IndicatorFields ==
    {"Lower", "Upper", "RSI", "MACD", "Signal", "Stoch_K", "Stoch_D", "ADX", "SMA20",
     "Volume_SMA"}

AllUndefined(df) ==
    /\ df # <<>>
    /\ \A k \in 1..Len(df) : \A field \in IndicatorFields : df[k][field] = NaN

\* C18: a backtest over bars none of which has any indicator defined
\* executes no trade and reports no trade and no profit
C18_UndefinedBarsNoTrade ==
    /\ (feed.program = "engine" /\ AllUndefined(feed.df)) =>
          /\ engine.orders = <<>>
          /\ engine.pc = "done" => engine.result = <<[profit_pct |-> 0, trades |-> 0]>>
    /\ (feed.program = "simulator" /\ feed.warm = 0 /\ AllUndefined(feed.df)) =>
          /\ sim.log = <<>>
          /\ sim.portfolio.closed_trades = <<>>
          /\ sim.pc = "done" => sim.result = <<0, 0>>

C18_Witness ==
    /\ feed.program = "engine"
    /\ AllUndefined(feed.df)
    /\ Len(feed.df) = 3
    /\ feed.first_next = 1
    /\ engine.pc = "done"
    /\ engine.result = <<[profit_pct |-> 0, trades |-> 0]>>

\* the number of leading bars two frames share
CommonPrefix(a, b) ==
    CHOOSE k \in 0..Len(a) :
        /\ k <= Len(b)
        /\ \A j \in 1..k : a[j] = b[j]
        /\ k = Len(a) \/ k = Len(b) \/ a[k + 1] # b[k + 1]

OrdersUpto(orders, k) ==
    SelectSeq(orders, LAMBDA o : o.bar <= k)

\* the evaluations the simulator has made of the first k bars of f.df
LogUpto(log, f, k) ==
    LET rows == Len(dropna(WarmUp(f.warm) \o SubSeq(f.df, 1, k)))
        n == IF rows > start_index THEN rows - start_index ELSE 0
    IN  SubSeq(log, 1, IF n < Len(log) THEN n ELSE Len(log))

\* the frames a run is compared with: the frame cut after any bar, and the
\* frame with any one bar replaced.  Two frames that agree up to a bar both
\* have the frame cut at that bar among these, so agreement with the cut
\* frames is agreement with each other.
Alternatives(df) ==
    {SubSeq(df, 1, k) : k \in 0..Len(df)}
        \cup {[df EXCEPT ![j] = bar] : j \in 1..Len(df), bar \in ReplayBars}

\* C19: replay is causal: two frames that are identical up to and including
\* index i give the same signals and the same trade decisions at every
\* index <= i, whatever the bars after i are
C19_ReplayIsCausal ==
    /\ (feed.program = "engine" /\ engine.pc = "done") =>
          \A alt \in Alternatives(feed.df) :
            LET k == CommonPrefix(feed.df, alt)
                other == strategy_run(backtest_start([feed EXCEPT !.df = alt], current))
            IN  /\ SubSeq(engine.rec, 1, k) = SubSeq(other.rec, 1, k)
                /\ OrdersUpto(engine.orders, k - 1) = OrdersUpto(other.orders, k - 1)
                /\ \A o \in {engine.orders[n] : n \in 1..Len(engine.orders)} :
                      o.bar = k =>
                        \E p \in {other.orders[n] : n \in 1..Len(other.orders)} :
                            p.bar = k /\ p.side = o.side /\ p.size = o.size
    /\ (feed.program = "simulator" /\ sim.pc = "done") =>
          \A alt \in Alternatives(feed.df) :
            LET k == CommonPrefix(feed.df, alt)
                g == [feed EXCEPT !.df = alt]
                other == simulation_run(simulation_start(g), g)
            IN  LogUpto(sim.log, feed, k) = LogUpto(other.log, g, k)

C19_Witness ==
    /\ feed.program = "engine"
    /\ engine.pc = "done"
    /\ Len(feed.df) = 3
    /\ feed.df[3] = HighBar
    /\ \E n \in 1..Len(engine.orders) :
          engine.orders[n].bar = 2 /\ engine.orders[n].side = "buy"

(***************************************************************************)
(* Properties of the optimizer                                             *)
(***************************************************************************)
NonDecreasing(scores) ==
    \A k \in 1..(Len(scores) - 1) : scores[k] <= scores[k + 1]

StoredHistory(file) ==
    IF json_load_raises(file) THEN <<>> ELSE load_state(file).history

StoredScores(file) ==
    [k \in 1..Len(StoredHistory(file)) |-> StoredHistory(file)[k].score]

\* C20: in the persisted optimizer state the scores of the stored history
\* entries, in stored order, never decrease, after any number of generations
\* and of successive runs that load and extend the same state
C20_HistoryScoresNonDecreasing ==
    NonDecreasing(StoredScores(optimizer_state_file))

StoredBest(file) ==
    IF json_load_raises(file) THEN <<>> ELSE load_state(file).best

IsPrefix(a, b) == Len(a) <= Len(b) /\ SubSeq(b, 1, Len(a)) = a

\* a generation of a run has saved its state
GenerationSaved ==
    /\ optimizer'.pc = "loop"
    /\ optimizer.pc = "loop"
    /\ optimizer'.gen = optimizer.gen + 1

\* C21: a generation replaces the persisted best only when its best score
\* is strictly greater than the stored best score or no best is stored; an
\* equal or lower score leaves best as it is, so best.score never decreases
\* across generations and runs; the history entries already stored are
\* neither changed nor removed by a run
C21_BestOnStrictImprovement ==
    [][GenerationSaved =>
        LET old == optimizer.state
            new == load_state(optimizer_state_file')
            score == new.history[Len(new.history)].score
        IN  /\ new.history = Append(old.history, new.history[Len(new.history)])
            /\ IsPrefix(StoredHistory(optimizer_state_file), new.history)
            /\ old.best = <<>> => new.best[1].score = score
            /\ old.best # <<>> =>
                  /\ score > old.best[1].score => new.best[1].score = score
                  /\ score <= old.best[1].score => new.best = old.best
                  /\ new.best[1].score >= old.best[1].score
            /\ StoredBest(optimizer_state_file) # <<>> =>
                  new.best[1].score >= StoredBest(optimizer_state_file)[1].score
    ]_vars

C21_Witness ==
    /\ optimizer.runs = 2
    /\ optimizer.gen >= 1
    /\ optimizer_state_file # <<>>
    /\ Len(StoredScores(optimizer_state_file)) >= 2
    /\ StoredScores(optimizer_state_file)[Len(StoredScores(optimizer_state_file))]
          < StoredBest(optimizer_state_file)[1].score

\* C24: a sampled ticker whose backtest ends without data is skipped; the
\* evaluation, the generation and the run go on, and no error ends the run
C24_NoDataDoesNotAbort ==
    optimizer.error # "AttributeError"

\* C25: loading persisted state never fails: a missing or malformed file
\* gives the default portfolio, and the empty optimizer state
C25_LoadNeverFails ==
    /\ (nops = 0 /\ disk \in {MissingFile, MalformedFile}) =>
          portfolio = InitialPortfolioState
    /\ (optimizer.runs > 0 /\ optimizer.loaded_from \in {<<>>, MalformedOptimizerFile}) =>
          /\ optimizer.error # "JSONDecodeError"
          /\ optimizer.gen = 0 => optimizer.state = EmptyOptimizerState

(***************************************************************************)
(* Properties of the population                                            *)
(***************************************************************************)
InRange(ind) ==
    \A k \in 1..Len(CONFIG_KEYS) :
        /\ CONFIG_RANGES[CONFIG_KEYS[k]][1] <= ind[k]
        /\ ind[k] <= CONFIG_RANGES[CONFIG_KEYS[k]][2]

AllInRange(pop) == \A n \in 1..Len(pop) : InRange(pop[n])

\* C22: in the initial population gene k of every individual lies within
\* the (min, max) range configured for coefficient k
C22_InitialGenesInRange ==
    (population.pc = "created" /\ population.gen = 0) => AllInRange(population.pop)

\* C23: in every generation, after crossover and mutation, every gene of
\* every individual lies within the (min, max) range of its coefficient
C23_VariedGenesInRange ==
    population.gen >= 1 => AllInRange(population.pop)

(***************************************************************************)
(* Properties of the run requests                                          *)
(***************************************************************************)
CallsWhere(P(_)) == {i \in 1..Len(requests.calls) : P(requests.calls[i])}

RunsInProgress == CallsWhere(LAMBDA call : call.pc = "running")

RunsStartedBy(click) ==
    CallsWhere(LAMBDA call : call.click = click /\ call.pc \in {"running", "returned"})

\* C26: at most one backtest or optimizer run is in progress at any time,
\* and one run request starts one run, not more
C26_OneRunAtATime ==
    /\ Cardinality(RunsInProgress) <= 1
    /\ \A click \in 1..requests.clicks : Cardinality(RunsStartedBy(click)) <= 1

(***************************************************************************)
(* The Config Store                                                        *)
(***************************************************************************)
\* the keys an update was sent that the store had before it
KnownKeys(edit, before) == DOMAIN edit.values \cap DOMAIN before

\* C28: after update(partial) the store has the keys it had before; each
\* key present in both the store and partial holds partial's value, every
\* other key holds the value it had; a key of partial the store did not
\* have is not added.
C28_UpdateChangesKnownKeysOnly ==
    store_log.op = "update" =>
        LET edit == store_log.edit[1]
        IN  /\ DOMAIN current = DOMAIN store_log.before
            /\ \A k \in DOMAIN current :
                  current[k] = IF k \in KnownKeys(edit, store_log.before)
                               THEN edit.values[k] ELSE store_log.before[k]

\* an update naming a key the store has and one it has not has been made
C28_Witness ==
    /\ store_log.op = "update"
    /\ KnownKeys(store_log.edit[1], store_log.before) # {}
    /\ DOMAIN store_log.edit[1].values \ DOMAIN store_log.before # {}
    /\ current # store_log.before

\* C29: after reset() every editable key holds the value config.py holds at
\* that moment, whatever was persisted or edited before.
C29_ResetYieldsFileValues ==
    store_log.op = "reset" => current = config_file.values

\* C30: the hash is a function of the store's content: two moments at which
\* the store is the same key-value map give the same hash, and an update
\* naming only unknown keys leaves the hash as it was.
C30_HashOfContentOnly ==
    /\ \A h \in store_log.seen :
          h.config = current => h.hash = _hash_config(current, current_types)
    /\ (store_log.op = "update" /\ KnownKeys(store_log.edit[1], store_log.before) = {})
          => _hash_config(current, current_types)
               = _hash_config(store_log.before, store_log.before_types)

(***************************************************************************)
(* A run and the store edited beside it                                    *)
(***************************************************************************)
\* C27: every signal a run has computed is the signal of its row under the
\* config values that were current when the run started, whatever update
\* or reset was made while the run was in progress.
C27_RunScoresWithStartConfig ==
    \A k \in 1..Len(scoring.rec) :
        scoring.rec[k] = rec_column(scoring.df, scoring.started_with)[k]

(***************************************************************************)
(* Saves that fail                                                         *)
(***************************************************************************)
\* what a call does to the portfolio in memory
Effect(call, pf) ==
    IF call.op = "buy"
    THEN _buy_stock(pf, call.ticker, call.quantity, call.price).portfolio
    ELSE IF call.op = "sell"
    THEN _sell_stock(pf, call.ticker, call.quantity, call.price).portfolio
    ELSE IF call.op = "reset" THEN reset_portfolio(pf, initial_portfolio_state)
    ELSE pf

\* the call saved: it was executed and its save did not raise
Saved(call) == ~call.raised /\ call.color \in {"success", "info"}

\* C31: after a buy, sell or reset whose save raised, the portfolio in memory
\* is the one the operation made; after a call that saved, the file is the
\* whole portfolio in memory, which holds the effect of a call before it
\* whose save raised.
C31_FailedSaveKeepsEffect ==
    /\ last.raised => portfolio = Effect(last, last.before)
    /\ Saved(last) => disk.kind = "json" /\ disk.data = portfolio
    /\ (prev.raised /\ Saved(last)) =>
          portfolio = Effect(last, Effect(prev, prev.before))

\* a save raised after an operation that changed the portfolio, the file was
\* left empty, and the next call saved
C31_Witness ==
    /\ prev.raised
    /\ Effect(prev, prev.before) # prev.before
    /\ last.disk_before = MalformedFile
    /\ Saved(last)
    /\ disk.kind = "json"
    /\ disk.data = portfolio

(***************************************************************************)
(* The records of a run                                                    *)
(***************************************************************************)
\* run_optimizer leaves its loop and returns
RunCompletes == optimizer.pc = "loop" /\ optimizer'.pc = "done"

\* the history the run loaded when it started
LoadedHistory == load_state(optimizer.loaded_from).history

C32_AbandonedRunLeavesSnapshot ==
    optimizer.pc = "exited" => ~json_load_raises(optimizer_state_file)

\* the value the latest poll returned
Polled == optimizer.progress[1]

\* C34: a poll never raises; without a state file it reports zero
\* iterations, no best score and no records; with one, iterations is the
\* number of stored records and the records returned are the latest, at
\* most 10.
C34_PollNeverFails ==
    optimizer.progress # <<>> =>
        /\ ~Polled.raised
        /\ Polled.iterations >= Len(Polled.history)
        /\ Len(Polled.history) <= RECENT

(***************************************************************************)
(* Ticks, loaded data and the anti-repeat state                            *)
(***************************************************************************)
\* C35: on a tick whose fetch fails the automation executes no trade: the
\* portfolio is after the tick what it was before it.
C35_FailedFetchNoTrade ==
    [][FailedFetchTick => portfolio' = portfolio]_vars

\* the step is an automated evaluation
Evaluated == auto_log' # auto_log

\* C38: a step that is not an automated evaluation (a reset, a manual buy
\* or sell, an update) leaves the anti-repeat state of every ticker as it
\* was, and an evaluation of a Buy signal for a ticker whose recorded state
\* is Buy buys nothing, whatever the portfolio holds.
C38_ResetKeepsAntiRepeat ==
    [][/\ ~Evaluated =>
            latest_data'.last_auto_trade_rec = latest_data.last_auto_trade_rec
       /\ (/\ Evaluated
           /\ latest_data.rec = BUY_SIGNAL
           /\ latest_data.last_auto_trade_rec[latest_data.ticker] = BUY_SIGNAL)
          => portfolio' = portfolio
    ]_vars

\* an automated buy, then a reset, then an evaluation of the standing Buy
\* signal on the emptied portfolio, which bought nothing
C38_Witness ==
    /\ last.op = "reset"
    /\ auto_log # <<>>
    /\ LET e == auto_log[Len(auto_log)]
       IN  /\ e.rec = BUY_SIGNAL
           /\ e.recorded_before = BUY_SIGNAL
           /\ e.covered
           /\ ~e.fired
           /\ e.before.stocks = NoStocks
           /\ e.before.closed_trades = NoTrades
           /\ e.before.cash = portfolio.initial_cash
    /\ portfolio.stocks = NoStocks

\* the step executed a trade
TradeExecuted ==
    /\ last' # last
    /\ last'.op \in {"buy", "sell"}
    /\ last'.color = "success"

\* C39: a trade is executed for the ticker the loaded data belongs to, at
\* the last Close of that data.
C39_TradesAtLoadedClose ==
    [][TradeExecuted =>
          /\ latest_data.ticker = last'.ticker
          /\ last'.price = latest_data.close
    ]_vars

(***************************************************************************)
(* The closed trades                                                       *)
(***************************************************************************)
\* the step is a sell the ledger executed
SoldNow == last' # last /\ last'.op = "sell" /\ last'.color = "success"

\* the step is a reset
ResetNow == last' # last /\ last'.op = "reset"

FracSum(a, b) == Frac(a.num * b.den + b.num * a.den, a.den * b.den)

FracDiff(a, b) == Frac(a.num * b.den - b.num * a.den, a.den * b.den)

\* sum over the open positions of quantity * average_price
RECURSIVE open_value(_)
open_value(stocks) ==
    IF DOMAIN stocks = {} THEN FracOfInt(0)
    ELSE LET t == CHOOSE u \in DOMAIN stocks : TRUE
             p == stocks[t]
         IN  FracSum(Frac(p.qty * p.avg_price.num, p.avg_price.den),
                     open_value(del_stock(stocks, t)))

\* cash + sum over the open positions of quantity * average_price
ledger_value(pf) == FracSum(FracOfInt(pf.cash), open_value(pf.stocks))

\* initial_cash + the sum of realized P&L over the closed trade records
\* (the records hold hundredths)
booked_value(pf) ==
    Frac(100 * pf.initial_cash + sum_realized(pf.closed_trades), 100)

\* C37 as stated: the two are equal in every state
C37_LedgerConservation_Original ==
    ledger_value(portfolio) = booked_value(portfolio)

\* the step is a call of the ledger
Called == last' # last

\* C37: a buy and a rejected sell leave cash + sum of quantity *
\* average_price as it was and an executed sell adds the realized P&L it
\* returns, so that the value equals initial_cash + the sum of the realized
\* P&L returned; the closed trade records hold that P&L rounded to cents,
\* and initial_cash + their sum is within half a cent per record of it.
C37_LedgerConservation ==
    /\ [](LET gap == FracDiff(ledger_value(portfolio), booked_value(portfolio))
          IN  200 * Abs(gap.num) <= Len(portfolio.closed_trades) * gap.den)
    /\ [][Called =>
            ledger_value(portfolio') =
                FracSum(ledger_value(portfolio),
                        IF last'.op = "sell" /\ last'.color = "success"
                        THEN last'.realized_pnl ELSE FracOfInt(0))
       ]_vars

\* a sell at an average price that is not a whole number of cents was
\* executed, and the records' sum is off the ledger's value
C37_Witness ==
    /\ last.op = "sell" /\ last.color = "success"
    /\ last.before.stocks[last.ticker].avg_price.den = 3
    /\ ledger_value(portfolio) # booked_value(portfolio)
====
